---- MODULE Spec2Model ----
(***************************************************************************)
(* Forecasting pipeline of stock_apk.py: StockAnalysisApp.predict_future   *)
(* (scaling, windowing, autoregressive rollout, inverse scaling with       *)
(* continuity shift, sentiment blend, noise, floor) and                    *)
(* StockAnalysisApp.forecast_future_sentiment (recent-window filter, flat  *)
(* fallbacks, least-squares trend, clipping).                              *)
(*                                                                         *)
(* Floating-point values are modelled as exact rationals (records n/d in   *)
(* lowest terms), dates as proleptic ordinals (date.toordinal()).          *)
(***************************************************************************)
EXTENDS Integers, Sequences, FiniteSets, TLC

(***************************************************************************)
(* Bounds of the model                                                     *)
(***************************************************************************)
\* time_step argument of predict_future (60 in display_plot), scaled down
time_step == 2
\* longest training series drawn
MaxRows == 4

(***************************************************************************)
(* Program constants                                                       *)
(***************************************************************************)
\* predict_future: prediction_days = 10
prediction_days == 10

(***************************************************************************)
(* Exact rational arithmetic standing for the float arithmetic             *)
(***************************************************************************)
Abs(x) == IF x < 0 THEN -x ELSE x

RECURSIVE GCD(_, _)
GCD(a, b) == IF b = 0 THEN a ELSE GCD(b, a % b)

Frac(n, d) ==
  LET g == GCD(Abs(n), Abs(d))
      s == IF d < 0 THEN -1 ELSE 1
  IN  [n |-> (s * n) \div g, d |-> (s * d) \div g]

FromInt(k) == [n |-> k, d |-> 1]
LCM(a, b) == (a \div GCD(a, b)) * b
FAdd(a, b) ==
  LET l == LCM(a.d, b.d)
  IN  Frac(a.n * (l \div a.d) + b.n * (l \div b.d), l)
FNeg(a) == [n |-> -a.n, d |-> a.d]
FSub(a, b) == FAdd(a, FNeg(b))
FMul(a, b) ==
  LET g1 == GCD(Abs(a.n), b.d)
      g2 == GCD(Abs(b.n), a.d)
  IN  Frac((a.n \div g1) * (b.n \div g2), (a.d \div g2) * (b.d \div g1))
FInv(a) == Frac(a.d, a.n)
FDiv(a, b) == FMul(a, FInv(b))
FLe(a, b) == FSub(a, b).n <= 0
FLt(a, b) == FSub(a, b).n < 0
FMax(a, b) == IF FLe(a, b) THEN b ELSE a
FMin(a, b) == IF FLe(a, b) THEN a ELSE b
Zero == FromInt(0)
One == FromInt(1)

RECURSIVE FSum(_)
FSum(s) == IF s = <<>> THEN Zero ELSE FAdd(Head(s), FSum(Tail(s)))

\* np.mean of a non-empty sequence
Mean(s) == FDiv(FSum(s), FromInt(Len(s)))

\* np.clip(x, lo, hi)
Clip(x, lo, hi) == FMin(FMax(x, lo), hi)

(***************************************************************************)
(* Dates                                                                   *)
(***************************************************************************)
\* date.weekday(): 0 = Monday ... 6 = Sunday (ordinal 1 is a Monday)
Weekday(o) == (o + 6) % 7
IsBusinessDay(o) == Weekday(o) < 5

\* pd.date_range(start=start, periods=n, freq='B').date
\* mutant: calendar days instead of business days
BusinessDays_Calendar(start, n) == [i \in 1..n |-> start + i - 1]

RECURSIVE BusinessDays(_, _)
BusinessDays(start, n) ==
  IF n = 0 THEN <<>>
  ELSE IF IsBusinessDay(start)
       THEN <<start>> \o BusinessDays(start + 1, n - 1)
       ELSE BusinessDays(start + 1, n)

\* sorted(...): the elements of a finite set of ordinals in increasing order
RECURSIVE SortedSeq(_)
SortedSeq(S) ==
  IF S = {} THEN <<>>
  ELSE LET m == CHOOSE x \in S : \A y \in S : x <= y
       IN  <<m>> \o SortedSeq(S \ {m})

(***************************************************************************)
(* Input domains                                                           *)
(***************************************************************************)
\* closes of the training series
CloseValues == {1, 3}
\* values of the auxiliary indicator column; NaN marks a warm-up row whose
\* rolling indicators are undefined
AuxValues == {0, 1}
NaN == -1
\* rows of the series: every close with every defined indicator value, and
\* a warm-up row
RawRows == [close : CloseValues, ind : AuxValues] \cup {[close |-> 1, ind |-> NaN]}

\* rolling windows leave NaN only in a prefix of the series
WarmupIsPrefix(df) ==
  \A i \in 1..Len(df) : \A j \in 1..Len(df) :
     (i < j /\ df[j].ind = NaN) => df[i].ind = NaN

TrainingSets ==
  UNION {{df \in [1..l -> RawRows] : WarmupIsPrefix(df)} : l \in 0..MaxRows}

\* what get_stock_data can return for the training period: nothing, or a
\* series of closes with some warm-up rows
AppTrainingSets ==
  {df \in TrainingSets :
     \A i \in DOMAIN df : /\ df[i].ind \in {0, NaN}
                          /\ df[i].ind = 0 => df[i].close = 1 + 2 * (i % 2)}

\* datetime.today().date() as an ordinal
Today == 50
\* training_data.index[-1].date(): a Friday, so that the day after is no
\* business day
LastDates == {47}

(***************************************************************************)
(* compute_indicators as seen by predict_future: the indicator values are  *)
(* inputs; rows holding an undefined value are dropped (dropna), an empty  *)
(* input or an empty remainder gives the empty frame.  Column 1 is close.  *)
(***************************************************************************)
RECURSIVE DropNa(_)
DropNa(df) ==
  IF df = <<>> THEN <<>>
  ELSE IF Head(df).ind = NaN THEN DropNa(Tail(df))
       ELSE <<Head(df)>> \o DropNa(Tail(df))

ComputeIndicators(df) ==
  LET kept == IF df = <<>> THEN <<>> ELSE DropNa(df)
  IN  [i \in 1..Len(kept) |-> <<FromInt(kept[i].close), FromInt(kept[i].ind)>>]

FeatureColumns == <<"close", "ind">>
NumColumns == Len(FeatureColumns)

(***************************************************************************)
(* sklearn MinMaxScaler with feature_range (0, 1)                          *)
(***************************************************************************)
Column(X, c) == [i \in 1..Len(X) |-> X[i][c]]

RECURSIVE SeqMin(_)
SeqMin(s) == IF Len(s) = 1 THEN s[1] ELSE FMin(Head(s), SeqMin(Tail(s)))
RECURSIVE SeqMax(_)
SeqMax(s) == IF Len(s) = 1 THEN s[1] ELSE FMax(Head(s), SeqMax(Tail(s)))

\* _handle_zeros_in_scale: a constant column is scaled by 1
HandleZeros(r) == IF r = Zero THEN One ELSE r

\* fit: scale_ = 1 / data_range, min_ = 0 - data_min * scale_
ScalerFit(X) ==
  LET scale == [c \in 1..NumColumns |->
                  FDiv(One, HandleZeros(FSub(SeqMax(Column(X, c)), SeqMin(Column(X, c)))))]
  IN  [scale_ |-> scale,
       min_   |-> [c \in 1..NumColumns |->
                     FSub(Zero, FMul(SeqMin(Column(X, c)), scale[c]))]]

\* transform: X * scale_ + min_
ScalerTransform(X, sc) ==
  [i \in 1..Len(X) |->
     [c \in 1..NumColumns |-> FAdd(FMul(X[i][c], sc.scale_[c]), sc.min_[c])]]

\* close_scaler.inverse_transform: (X - min_) / scale_ with the close column's pair
\* mutant: the inverse multiplies by the scale
InverseTransform_TimesScale(path, min0, scale0) ==
  [i \in 1..Len(path) |-> FMul(FSub(path[i], min0), scale0)]

InverseTransform(path, min0, scale0) ==
  [i \in 1..Len(path) |-> FDiv(FSub(path[i], min0), scale0)]

(***************************************************************************)
(* Windowing loop: for i in range(time_step, len(scaled_data))             *)
(* (0-based i; row i of the code is row i + 1 here)                        *)
(***************************************************************************)
\* mutant: the loop starts one row late
WindowIndices_StartLate(n, T) == {i \in 0..(n - 1) : i > T}

WindowIndices(n, T) == {i \in 0..(n - 1) : i >= T}

\* mutant: the slice is taken one row late and so holds the label row
WindowAt_ShiftedByOne(scaled, i, T) == SubSeq(scaled, i - T + 2, i + 1)

WindowAt(scaled, i, T) == SubSeq(scaled, i - T + 1, i)

LabelAt(scaled, i) == scaled[i + 1][1]

MakeWindows(scaled, T) ==
  LET idx == SortedSeq(WindowIndices(Len(scaled), T))
  IN  [X |-> [k \in 1..Len(idx) |-> WindowAt(scaled, idx[k], T)],
       y |-> [k \in 1..Len(idx) |-> LabelAt(scaled, idx[k])]]

(***************************************************************************)
(* Sequence model: an opaque deterministic function of the input window,   *)
(* fixed by the trained state m.  Its outputs are scaled close values; the *)
(* dense output layer is linear, so they are not confined to [0, 1].       *)
(***************************************************************************)
\* the weights after training, one number here
TrainedStates == {<<0>>, <<1>>}
PredValues == <<FromInt(-1), Zero, Frac(1, 2), One, FromInt(2)>>

RECURSIVE Digest(_, _)
Digest(W, k) ==
  IF W = <<>> THEN 0
  ELSE k * (Head(W)[1].n + Head(W)[1].d + 2 * Head(W)[2].n + 3 * Head(W)[2].d)
       + Digest(Tail(W), k + 1)

\* model.predict(current_batch, verbose=0)[0, 0]
PredictOne(m, W) == PredValues[((m[1] + Digest(W, 1)) % Len(PredValues)) + 1]

(***************************************************************************)
(* Autoregressive rollout step                                             *)
(***************************************************************************)
\* new_row = current_batch[0, -1, :].copy(); new_row[0] = next_pred_scaled
\* mutant: the new row holds the prediction and nothing else
NewRow_TargetOnly(batch, pred) ==
  [c \in DOMAIN batch[Len(batch)] |-> IF c = 1 THEN pred ELSE Zero]

NewRow(batch, pred) == [batch[Len(batch)] EXCEPT ![1] = pred]

\* mutant: the oldest row is not dropped
NextBatch_KeepOldest(batch, pred) == Append(batch, NewRow(batch, pred))

\* np.append(current_batch[:, 1:, :], new_row_reshaped, axis=1)
NextBatch(batch, pred) == Append(Tail(batch), NewRow(batch, pred))

(***************************************************************************)
(* Continuity shift, sentiment blend, noise, floor                         *)
(***************************************************************************)
\* mutant: the shift is taken from the last predicted price
PriceShift_FromLast(predicted, last_actual) == FSub(last_actual, predicted[Len(predicted)])

\* price_shift = last_actual_price - predicted_prices[0]
PriceShift(predicted, last_actual) == FSub(last_actual, predicted[1])

\* adjusted_prices = predicted_prices + price_shift
AdjustPrices(predicted, last_actual) ==
  [i \in 1..Len(predicted) |-> FAdd(predicted[i], PriceShift(predicted, last_actual))]

\* sentiment_weight = 0.005
SentimentWeight == Frac(5, 1000)

\* future_sentiment.get(d, 0)
GetSentiment(fs, d) == IF d \in DOMAIN fs THEN fs[d] ELSE Zero

\* adjustment_factor = 1 + (sentiment_weight * sentiment_value)
AdjustmentFactor(fs, d) == FAdd(One, FMul(SentimentWeight, GetSentiment(fs, d)))

\* mutant: every price is scaled by the first date's factor
BlendPrices_FirstDate(adjusted, dates, fs) ==
  [i \in 1..Len(adjusted) |-> FMul(adjusted[i], AdjustmentFactor(fs, dates[1]))]

\* for i, d in enumerate(future_dates): final_adjusted_prices[i] *= adjustment_factor
BlendPrices(adjusted, dates, fs) ==
  [i \in 1..Len(adjusted) |-> FMul(adjusted[i], AdjustmentFactor(fs, dates[i]))]

\* volatility_factor = final_adjusted_prices.mean() * 0.005
VolatilityFactor(prices) == FMul(Mean(prices), Frac(5, 1000))

\* draws of np.random.normal(0, 1), in standard deviations; element i of the
\* noise vector is the draw for its parity times the volatility factor
NoiseDraws == {FromInt(-400), FromInt(2)}
NoiseVector(n, vf, zodd, zeven) ==
  [i \in 1..n |-> FMul(IF i % 2 = 1 THEN zodd ELSE zeven, vf)]

\* noisy_final_prices = final_adjusted_prices + noise
AddNoise(prices, noise) == [i \in 1..Len(prices) |-> FAdd(prices[i], noise[i])]

\* np.maximum(noisy_final_prices, 0.01)
PriceFloor == Frac(1, 100)
\* mutant: the floor is applied at zero
ApplyFloor_AtZero(prices) == [i \in 1..Len(prices) |-> FMax(prices[i], Zero)]

ApplyFloor(prices) == [i \in 1..Len(prices) |-> FMax(prices[i], PriceFloor)]

(***************************************************************************)
(* forecast_future_sentiment                                               *)
(***************************************************************************)
\* timedelta(days=30)
RecentDays == 30
RecentCutoff(today) == today - RecentDays

\* for d, s in sorted(self.sentiment_data.items()): if d >= recent_cutoff
RecentDates(data, today) == {d \in DOMAIN data : d >= RecentCutoff(today)}

Values(data, dates) == [i \in 1..Len(dates) |-> data[dates[i]]]

\* mutant: the regression is attempted from three points on
MinRegressionPoints_Three == 5 - 2

\* if len(hist_dates_ord) < 5
MinRegressionPoints == 5

\* mutant: the overall mean takes precedence over the recent mean
FallbackSentiment_OverallFirst(hist, data) ==
  IF DOMAIN data # {} THEN Mean(Values(data, SortedSeq(DOMAIN data)))
  ELSE IF hist # <<>> THEN Mean(hist)
  ELSE Zero

\* np.mean(hist_sentiments) if hist_sentiments
\*   else np.mean(list(self.sentiment_data.values())) if self.sentiment_data else 0
FallbackSentiment(hist, data) ==
  IF hist # <<>> THEN Mean(hist)
  ELSE IF DOMAIN data # {} THEN Mean(Values(data, SortedSeq(DOMAIN data)))
  ELSE Zero

\* {d: v for d in future_dates}
FlatForecast(dates, v) == [d \in {dates[i] : i \in 1..Len(dates)} |-> v]

\* LinearRegression().fit(x, y): ordinary least squares with intercept
LinearFit(x, y) ==
  LET xs   == [i \in 1..Len(x) |-> FromInt(x[i])]
      xbar == Mean(xs)
      ybar == Mean(y)
      sxx  == FSum([i \in 1..Len(x) |-> FMul(FSub(xs[i], xbar), FSub(xs[i], xbar))])
      sxy  == FSum([i \in 1..Len(x) |-> FMul(FSub(xs[i], xbar), FSub(y[i], ybar))])
      coef == IF sxx = Zero THEN Zero ELSE FDiv(sxy, sxx)
  IN  [coef_ |-> coef, intercept_ |-> FSub(ybar, FMul(coef, xbar))]

\* model.predict(future_dates_ord)
LinePredict(fit, o) == FAdd(FMul(fit.coef_, FromInt(o)), fit.intercept_)

\* mutant: the predictions are not clipped
ClipSentiment_None(v) == v

\* np.clip(predicted_sentiments, -1, 1)
ClipSentiment(v) == Clip(v, FromInt(-1), One)

\* for d, pred in zip(future_dates, predicted_sentiments): future_sentiment[d] = pred
TrendForecast(dates, x, y) ==
  [d \in {dates[i] : i \in 1..Len(dates)} |-> ClipSentiment(LinePredict(LinearFit(x, y), d))]

\* mutant: the handler lets the exception through
FitErrorHandler_Reraise(dates, hist) ==
  [raised |-> TRUE, value |-> FlatForecast(dates, Mean(hist))]

\* except Exception: fallback_sentiment = np.mean(hist_sentiments);
\* return {d: fallback_sentiment for d in future_dates}
FitErrorHandler(dates, hist) ==
  [raised |-> FALSE, value |-> FlatForecast(dates, Mean(hist))]

\* sentiment maps handed to forecast_future_sentiment when it is exercised on
\* its own: every partial map from these dates to these scores
SentAges == {31, 30, 20, 10, 5, 1}
SentDates == {Today - a : a \in SentAges}
ScoreValues == {FromInt(-2), Frac(-1, 2), One}
SentimentMaps == UNION {[S -> ScoreValues] : S \in SUBSET SentDates}

\* self.sentiment_data as get_news_sentiment leaves it (daily averages of
\* compound scores, each in [-1, 1]), for the runs of predict_future
RecentFive == {Today - 5, Today - 4, Today - 3, Today - 2, Today - 1}
FetchedSentiments ==
  { <<>>,
    [d \in RecentFive |-> IF d \in {Today - 5, Today - 3} THEN Zero ELSE Frac(1, 4)] }

(***************************************************************************)
(* State                                                                   *)
(***************************************************************************)
VARIABLES
  today,                    \* datetime.today().date()
  PERFORM_SENTIMENT,        \* module flag HAS_GDELT and HAS_NEWS_LIBS
  sentiment_data,           \* self.sentiment_data
  training_data,            \* argument of predict_future
  last_date,                \* training_data.index[-1].date()
  pc,                       \* position in predict_future
  features_df, scaler, close_scaler, scaled_data, train_set, model,
  current_batch, predicted_scaled_prices, rollout_log,
  predicted_prices, adjusted_prices, future_dates, future_sentiment,
  final_adjusted_prices, noise, noisy_final_prices, result,
  sent_pc,                  \* position in forecast_future_sentiment
  sent_caller, sent_dates, hist_dates_ord, hist_sentiments, sent_path,
  sent_result,
  app_pc,                   \* position of the Tk main thread
  after_queue,              \* callbacks scheduled with root.after, in order
  thread_pc,                \* position of the sentiment fetch thread
  run_no,                   \* number of the analysis run (1 + reselections)
  run_fetch,                \* the fetch of this run: its state, what it obtained,
                            \* and what the fetch of the run before obtained
  thread_runs,              \* fetch threads started so far
  message,                  \* the last messagebox shown
  plot_window,              \* self.plot_window: "none", "building" or "shown"
  plotted,                  \* the forecast drawn on the plot, if any
  plot_origin,              \* who called display_plot
  tk_error,                 \* an exception reached Tk's callback wrapper
  symbol,                   \* the local symbol of run_analysis_steps
  fetch_log,                \* the get_stock_data calls of its current loop pass
  loading_news_window,      \* the loading window of step 6: "none" or "up"
  callbacks_scheduled,      \* calls of root.after(0, callback) so far
  ind_pc,                   \* position in compute_indicators
  ind_columns, ind_rows,    \* the columns and the row count of its table
  ind_data,                 \* data.columns, the working copy's columns
  ind_result,               \* what compute_indicators returned
  rsi_pc,                   \* position in compute_rsi
  rsi_series, rsi_out,      \* its argument and its locals
  calc_pc,                  \* position in the try block of compute_indicators,
                            \* and of predict_future once that has returned
  calc_df,                  \* its table: rows of close, high, low, volume
  calc_data,                \* the columns computed so far
  calc_result,              \* the frame it returned
  stock_pc,                 \* position in get_stock_data
  stock_end,                \* its end_date argument
  stock_download,           \* what yf.download does in this call
  stock_data,               \* its local data
  stock_result,             \* what it returned or raised
  dlg_pc,                   \* the date dialog: "open", "destroyed", "returned",
                            \* then the caller's branch
  dlg_today,                \* datetime.today().date() as (year, month, day)
  self_dates,               \* self.dates
  dlg_clicks,               \* Submit clicks so far, and what the last one read
                            \* from the entry and the combobox
  dlg_result                \* what select_date_range returned

inputVars == <<today, PERFORM_SENTIMENT, sentiment_data, training_data, last_date>>
prepVars == <<features_df, scaler, close_scaler, scaled_data, train_set>>
rollVars == <<model, current_batch, predicted_scaled_prices, rollout_log>>
finalVars == <<predicted_prices, adjusted_prices, final_adjusted_prices, noise,
               noisy_final_prices>>
sentVars == <<sent_pc, sent_caller, sent_dates, hist_dates_ord, hist_sentiments,
              sent_path, sent_result>>
appVars == <<app_pc, after_queue, thread_pc, run_no, run_fetch, thread_runs, message,
             plot_window, plotted, plot_origin, tk_error, symbol, fetch_log,
             loading_news_window, callbacks_scheduled>>
indVars == <<ind_pc, ind_columns, ind_rows, ind_data, ind_result>>
rsiVars == <<rsi_pc, rsi_series, rsi_out>>
calcVars == <<calc_pc, calc_df, calc_data, calc_result>>
stockVars == <<stock_pc, stock_end, stock_download, stock_data, stock_result>>
dlgVars == <<dlg_pc, dlg_today, self_dates, dlg_clicks, dlg_result>>
toolVars == <<calcVars, stockVars, dlgVars>>
hostVars == <<appVars, indVars, rsiVars, toolVars>>
vars == <<inputVars, pc, prepVars, rollVars, finalVars, future_dates,
          future_sentiment, result, sentVars, hostVars>>

None == <<>>

LocalsInit ==
  /\ features_df = <<>> /\ scaler = None /\ close_scaler = None
  /\ scaled_data = <<>> /\ train_set = None /\ model = None
  /\ current_batch = <<>> /\ predicted_scaled_prices = <<>> /\ rollout_log = <<>>
  /\ predicted_prices = <<>> /\ adjusted_prices = <<>> /\ future_dates = <<>>
  /\ future_sentiment = None /\ final_adjusted_prices = <<>> /\ noise = <<>>
  /\ noisy_final_prices = <<>> /\ result = None
  /\ hist_dates_ord = <<>> /\ hist_sentiments = <<>> /\ sent_path = "none"
  /\ sent_result = None

\* no fetch has been started
NoFetch == [state |-> "none", value |-> <<>>, prev |-> <<>>]

\* no application around the call
AppIdle ==
  /\ app_pc = "none" /\ after_queue = <<>> /\ thread_pc = 0 /\ run_no = 0
  /\ run_fetch = NoFetch /\ thread_runs = 0 /\ message = "none"
  /\ plot_window = "none" /\ plotted = None /\ plot_origin = "none"
  /\ tk_error = FALSE
  /\ symbol = "" /\ fetch_log = <<>> /\ loading_news_window = "none"
  /\ callbacks_scheduled = 0

\* compute_indicators is not running on its own
IndIdle ==
  /\ ind_pc = "idle" /\ ind_columns = <<>> /\ ind_rows = 0 /\ ind_data = <<>>
  /\ ind_result = None

\* compute_rsi is not running on its own
RsiIdle ==
  /\ rsi_pc = "idle" /\ rsi_series = <<>> /\ rsi_out = None

\* the indicator calculation is not running on its own
CalcIdle ==
  /\ calc_pc = "idle" /\ calc_df = <<>> /\ calc_data = None /\ calc_result = None

\* get_stock_data is not running on its own
StockIdle ==
  /\ stock_pc = "idle" /\ stock_end = 0 /\ stock_download = None
  /\ stock_data = None /\ stock_result = None

\* self.dates: None, or a dict given by its (key, value) pairs
PyNone == [none |-> TRUE, items |-> {}]
PyDict(items) == [none |-> FALSE, items |-> items]
NoDate == <<0, 0, 0>>
NoClicks == [n |-> 0, text |-> "", unit |-> ""]

\* no date dialog is open
DlgIdle ==
  /\ dlg_pc = "idle" /\ dlg_today = NoDate /\ self_dates = PyNone
  /\ dlg_clicks = NoClicks /\ dlg_result = PyNone

ToolIdle == CalcIdle /\ StockIdle /\ DlgIdle

\* a call of predict_future(training_data, time_step)
Init ==
  /\ today = Today
  /\ PERFORM_SENTIMENT \in BOOLEAN
  /\ sentiment_data \in FetchedSentiments
  /\ (~PERFORM_SENTIMENT => sentiment_data = <<>>)
  /\ training_data \in TrainingSets
  /\ last_date \in LastDates
  /\ pc = "start"
  /\ sent_pc = "idle" /\ sent_caller = "none" /\ sent_dates = <<>>
  /\ LocalsInit
  /\ AppIdle /\ IndIdle /\ RsiIdle /\ ToolIdle

\* a call of forecast_future_sentiment(future_dates) on its own
SentInit ==
  /\ today = Today
  /\ PERFORM_SENTIMENT = TRUE
  /\ sentiment_data \in SentimentMaps
  /\ training_data = <<>>
  /\ last_date \in LastDates
  /\ pc = "idle"
  /\ sent_pc = "entry" /\ sent_caller = "direct"
  /\ sent_dates = BusinessDays(last_date + 1, prediction_days)
  /\ LocalsInit
  /\ AppIdle /\ IndIdle /\ RsiIdle /\ ToolIdle

\* the last dates of a training series, one for every day of a week
WeekOfLastDates == {Today - 7, Today - 6, Today - 5, Today - 4, Today - 3, Today - 2,
                    Today - 1}

\* a call of predict_future on a series that ends on any day of the week
DatesInit ==
  /\ today = Today
  /\ PERFORM_SENTIMENT \in BOOLEAN
  /\ sentiment_data \in FetchedSentiments
  /\ (~PERFORM_SENTIMENT => sentiment_data = <<>>)
  /\ training_data \in AppTrainingSets
  /\ last_date \in WeekOfLastDates
  /\ pc = "start"
  /\ sent_pc = "idle" /\ sent_caller = "none" /\ sent_dates = <<>>
  /\ LocalsInit
  /\ AppIdle /\ IndIdle /\ RsiIdle /\ ToolIdle

(***************************************************************************)
(* predict_future                                                          *)
(***************************************************************************)
\* the insufficient-data return: (future_dates, np.array([]))
\* mutant: the dates are left out of the empty result
EmptyResult_NoDates == [dates |-> <<>>, prices |-> <<>>]

EmptyResult ==
  LET start == (IF training_data # <<>> THEN last_date ELSE today) + 1
  IN  [dates |-> BusinessDays(start, prediction_days), prices |-> <<>>]

\* 1. feature engineering, and the return on an empty feature frame
ComputeFeatures ==
  /\ pc = "start"
  /\ features_df' = ComputeIndicators(training_data)
  /\ IF features_df' = <<>>
     THEN /\ result' = EmptyResult
          /\ future_dates' = EmptyResult.dates
          /\ pc' = "done"
     ELSE /\ pc' = "scale"
          /\ UNCHANGED <<result, future_dates>>
  /\ UNCHANGED hostVars
  /\ UNCHANGED <<inputVars, scaler, close_scaler, scaled_data, train_set, rollVars,
                 finalVars, future_sentiment, sentVars>>

\* 2. scaling of the whole feature frame; the close column's (min_, scale_)
ScaleFeatures ==
  /\ pc = "scale"
  /\ scaler' = ScalerFit(features_df)
  /\ scaled_data' = ScalerTransform(features_df, scaler')
  /\ close_scaler' = [min_ |-> scaler'.min_[1], scale_ |-> scaler'.scale_[1]]
  /\ pc' = "window"
  /\ UNCHANGED hostVars
  /\ UNCHANGED <<inputVars, features_df, train_set, rollVars, finalVars, future_dates,
                 future_sentiment, result, sentVars>>

\* 3. the windowing loop, and the return when it yields no window
BuildWindows ==
  /\ pc = "window"
  /\ train_set' = MakeWindows(scaled_data, time_step)
  /\ IF Len(train_set'.X) = 0
     THEN /\ result' = EmptyResult
          /\ future_dates' = EmptyResult.dates
          /\ pc' = "done"
     ELSE /\ pc' = "train"
          /\ UNCHANGED <<result, future_dates>>
  /\ UNCHANGED hostVars
  /\ UNCHANGED <<inputVars, features_df, scaler, close_scaler, scaled_data, rollVars,
                 finalVars, future_sentiment, sentVars>>

\* scaled_data[-time_step:]
LastSequence(scaled, T) == SubSeq(scaled, Len(scaled) - T + 1, Len(scaled))

\* 4. model.fit leaves some trained state, or raises; 5. the first batch
TrainModel ==
  /\ pc = "train"
  /\ \E m \in TrainedStates, ok \in BOOLEAN :
       IF ok
       THEN /\ model' = m
            /\ current_batch' = LastSequence(scaled_data, time_step)
            /\ pc' = "rollout"
       ELSE /\ pc' = "raised"
            /\ UNCHANGED <<model, current_batch>>
  /\ UNCHANGED hostVars
  /\ UNCHANGED <<inputVars, prepVars, predicted_scaled_prices, rollout_log, finalVars,
                 future_dates, future_sentiment, result, sentVars>>

\* one pass of: for i in range(prediction_days)
RolloutStep ==
  /\ pc = "rollout"
  /\ Len(predicted_scaled_prices) < prediction_days
  /\ LET next_pred_scaled == PredictOne(model, current_batch)
     IN  /\ predicted_scaled_prices' = Append(predicted_scaled_prices, next_pred_scaled)
         /\ rollout_log' = Append(rollout_log,
                                  [window |-> current_batch, pred |-> next_pred_scaled])
         /\ current_batch' = NextBatch(current_batch, next_pred_scaled)
  /\ UNCHANGED hostVars
  /\ UNCHANGED <<inputVars, pc, prepVars, model, finalVars, future_dates,
                 future_sentiment, result, sentVars>>

\* training_data["close"].iloc[-1]
last_actual_price == FromInt(training_data[Len(training_data)].close)

\* 6.-8. inverse transform, continuity shift, future dates
InverseAndShift ==
  /\ pc = "rollout"
  /\ Len(predicted_scaled_prices) = prediction_days
  /\ predicted_prices' = InverseTransform(predicted_scaled_prices,
                                          close_scaler.min_, close_scaler.scale_)
  /\ adjusted_prices' = AdjustPrices(predicted_prices', last_actual_price)
  /\ future_dates' = BusinessDays(last_date + 1, prediction_days)
  /\ final_adjusted_prices' = adjusted_prices'
  /\ pc' = "blend"
  /\ UNCHANGED hostVars
  /\ UNCHANGED <<inputVars, prepVars, rollVars, noise, noisy_final_prices,
                 future_sentiment, result, sentVars>>

\* if PERFORM_SENTIMENT and self.sentiment_data
\* mutant: the test on self.sentiment_data is left out
BlendEnabled_FlagOnly(flag, data) == flag

BlendEnabled(flag, data) == flag /\ DOMAIN data # {}

\* 9. if PERFORM_SENTIMENT and self.sentiment_data: call the sentiment forecaster
SentimentBlend ==
  /\ pc = "blend"
  /\ IF BlendEnabled(PERFORM_SENTIMENT, sentiment_data)
     THEN /\ pc' = "blend_call"
          /\ sent_pc' = "entry"
          /\ sent_caller' = "predict_future"
          /\ sent_dates' = future_dates
     ELSE /\ pc' = "noise"
          /\ UNCHANGED <<sent_pc, sent_caller, sent_dates>>
  /\ UNCHANGED hostVars
  /\ UNCHANGED <<inputVars, prepVars, rollVars, finalVars, future_dates,
                 future_sentiment, result, hist_dates_ord, hist_sentiments, sent_path,
                 sent_result>>

\* 9. if future_sentiment: scale every price by its date's factor
ApplyBlend ==
  /\ pc = "blend_apply"
  /\ final_adjusted_prices' =
       IF DOMAIN future_sentiment # {}
       THEN BlendPrices(final_adjusted_prices, future_dates, future_sentiment)
       ELSE final_adjusted_prices
  /\ pc' = "noise"
  /\ UNCHANGED hostVars
  /\ UNCHANGED <<inputVars, prepVars, rollVars, predicted_prices, adjusted_prices,
                 noise, noisy_final_prices, future_dates, future_sentiment, result,
                 sentVars>>

\* 10. noise (np.random.normal raises ValueError on a negative scale), floor, return
NoiseAndFloor ==
  /\ pc = "noise"
  /\ LET volatility_factor == VolatilityFactor(final_adjusted_prices)
     IN  IF FLt(volatility_factor, Zero)
         THEN /\ pc' = "raised"
              /\ UNCHANGED <<noise, noisy_final_prices, result>>
         ELSE \E zodd \in NoiseDraws, zeven \in NoiseDraws :
                /\ noise' = NoiseVector(Len(final_adjusted_prices), volatility_factor,
                                        zodd, zeven)
                /\ noisy_final_prices' = ApplyFloor(AddNoise(final_adjusted_prices, noise'))
                /\ result' = [dates |-> future_dates, prices |-> noisy_final_prices']
                /\ pc' = "done"
  /\ UNCHANGED hostVars
  /\ UNCHANGED <<inputVars, prepVars, rollVars, predicted_prices, adjusted_prices,
                 final_adjusted_prices, future_dates, future_sentiment, sentVars>>

(***************************************************************************)
(* forecast_future_sentiment                                               *)
(***************************************************************************)
\* the empty-map return, else the collection of the recent observations
SentCollect ==
  /\ sent_pc = "entry"
  /\ IF DOMAIN sentiment_data = {}
     THEN /\ sent_result' = FlatForecast(sent_dates, Zero)
          /\ sent_path' = "empty"
          /\ sent_pc' = "return"
          /\ UNCHANGED <<hist_dates_ord, hist_sentiments>>
     ELSE /\ hist_dates_ord' = SortedSeq(RecentDates(sentiment_data, today))
          /\ hist_sentiments' = Values(sentiment_data, hist_dates_ord')
          /\ sent_pc' = "check"
          /\ UNCHANGED <<sent_result, sent_path>>
  /\ UNCHANGED hostVars
  /\ UNCHANGED <<inputVars, pc, prepVars, rollVars, finalVars, future_dates,
                 future_sentiment, result, sent_caller, sent_dates>>

\* if len(hist_dates_ord) < 5: the flat fallback
SentCheck ==
  /\ sent_pc = "check"
  /\ IF Len(hist_dates_ord) < MinRegressionPoints
     THEN /\ sent_result' = FlatForecast(sent_dates,
                                         FallbackSentiment(hist_sentiments, sentiment_data))
          /\ sent_path' = "fallback"
          /\ sent_pc' = "return"
     ELSE /\ sent_pc' = "fit"
          /\ UNCHANGED <<sent_result, sent_path>>
  /\ UNCHANGED hostVars
  /\ UNCHANGED <<inputVars, pc, prepVars, rollVars, finalVars, future_dates,
                 future_sentiment, result, sent_caller, sent_dates, hist_dates_ord,
                 hist_sentiments>>

\* the try block: fit, predict, clip; any exception goes to the handler
SentFit ==
  /\ sent_pc = "fit"
  /\ \E fails \in BOOLEAN :
       IF fails
       THEN LET h == FitErrorHandler(sent_dates, hist_sentiments)
            IN  /\ sent_result' = h.value
                /\ sent_path' = "fit_error"
                /\ sent_pc' = IF h.raised THEN "raised" ELSE "return"
                /\ pc' = IF h.raised /\ sent_caller = "predict_future"
                         THEN "raised" ELSE pc
       ELSE /\ sent_result' = TrendForecast(sent_dates, hist_dates_ord, hist_sentiments)
            /\ sent_path' = "trend"
            /\ sent_pc' = "return"
            /\ pc' = pc
  /\ UNCHANGED hostVars
  /\ UNCHANGED <<inputVars, prepVars, rollVars, finalVars, future_dates,
                 future_sentiment, result, sent_caller, sent_dates, hist_dates_ord,
                 hist_sentiments>>

\* the return to the caller
SentReturn ==
  /\ sent_pc = "return"
  /\ IF sent_caller = "predict_future"
     THEN /\ future_sentiment' = sent_result
          /\ pc' = "blend_apply"
          /\ sent_pc' = "idle"
     ELSE /\ sent_pc' = "done"
          /\ UNCHANGED <<future_sentiment, pc>>
  /\ UNCHANGED hostVars
  /\ UNCHANGED <<inputVars, prepVars, rollVars, finalVars, future_dates, result,
                 sent_caller, sent_dates, hist_dates_ord, hist_sentiments, sent_path,
                 sent_result>>

SentNext == SentCollect \/ SentCheck \/ SentFit \/ SentReturn

Next ==
  \/ ComputeFeatures \/ ScaleFeatures \/ BuildWindows \/ TrainModel
  \/ RolloutStep \/ InverseAndShift \/ SentimentBlend \/ ApplyBlend \/ NoiseAndFloor
  \/ SentCollect \/ SentCheck \/ SentFit \/ SentReturn

Spec == Init /\ [][Next]_vars

SpecSentiment == SentInit /\ [][SentNext]_vars

SpecDates == DatesInit /\ [][Next]_vars

(***************************************************************************)
(* compute_indicators: the checks on the input table                       *)
(***************************************************************************)
\* the longest column list of an input table
MaxCols == 5

\* column names as a caller may pass them
RawNames == {"Close", "close", "High", "Low", "Volume"}

\* str(col).lower()
LowerName(c) ==
  CASE c \in {"Close", "close"} -> "close"
    [] c = "High" -> "high"
    [] c = "Low" -> "low"
    [] c = "Volume" -> "volume"
    [] c = "Open" -> "open"

Range(q) == {q[i] : i \in DOMAIN q}

\* data.loc[:, ~data.columns.duplicated(keep='first')]
RECURSIVE KeepFirst(_, _)
KeepFirst(cols, seen) ==
  IF cols = <<>> THEN <<>>
  ELSE IF Head(cols) \in seen THEN KeepFirst(Tail(cols), seen)
       ELSE <<Head(cols)>> \o KeepFirst(Tail(cols), seen \cup {Head(cols)})

required_cols == {"close", "high", "low", "volume"}

\* [col for col in required_cols if col not in data.columns]
missing_cols(cols) == required_cols \ Range(cols)

feature_cols == <<"close", "EMA20", "MACD", "RSI_MA", "RSI_Slope", "OBV", "ATR",
                  "StdDev", "BBWidth">>

\* pd.DataFrame(columns=[...]): the explicitly empty result
\* mutant: the frame returned on bad input keeps a row
EmptyFrame_OneRow == [columns |-> feature_cols, rows |-> 1]

EmptyFrame == [columns |-> feature_cols, rows |-> 0]

\* df.empty: no rows or no columns
IsEmptyTable(cols, rows) == rows = 0 \/ cols = <<>>

\* input tables: up to MaxCols column names, up to 2 rows
IndInit ==
  /\ today = Today /\ PERFORM_SENTIMENT = FALSE /\ sentiment_data = <<>>
  /\ training_data = <<>> /\ last_date \in LastDates
  /\ pc = "idle"
  /\ sent_pc = "idle" /\ sent_caller = "none" /\ sent_dates = <<>>
  /\ LocalsInit
  /\ AppIdle /\ RsiIdle /\ ToolIdle
  /\ ind_pc = "entry"
  /\ ind_columns \in UNION {[1..l -> RawNames] : l \in 0..MaxCols}
  /\ ind_rows \in {0, 1, 2}
  /\ ind_data = <<>>
  /\ ind_result = None

nonIndVars == <<inputVars, pc, prepVars, rollVars, finalVars, future_dates,
                future_sentiment, result, sentVars, appVars, rsiVars, toolVars>>

\* if df.empty: return the empty frame
IndEntry ==
  /\ ind_pc = "entry"
  /\ IF IsEmptyTable(ind_columns, ind_rows)
     THEN ind_result' = EmptyFrame /\ ind_pc' = "done"
     ELSE ind_pc' = "lowercase" /\ UNCHANGED ind_result
  /\ UNCHANGED <<nonIndVars, ind_columns, ind_rows, ind_data>>

\* data.columns = [str(col).lower() ...]; on an exception the empty frame
IndLowercase ==
  /\ ind_pc = "lowercase"
  /\ \E fails \in BOOLEAN :
       IF fails
       THEN /\ ind_result' = EmptyFrame /\ ind_pc' = "done"
            /\ UNCHANGED ind_data
       ELSE /\ ind_data' = [i \in DOMAIN ind_columns |-> LowerName(ind_columns[i])]
            /\ ind_pc' = "dedup"
            /\ UNCHANGED ind_result
  /\ UNCHANGED <<nonIndVars, ind_columns, ind_rows>>

\* duplicate columns are dropped, the first occurrence kept
IndDedup ==
  /\ ind_pc = "dedup"
  /\ ind_data' = KeepFirst(ind_data, {})
  /\ ind_pc' = "required"
  /\ UNCHANGED <<nonIndVars, ind_columns, ind_rows, ind_result>>

\* if missing_cols: return the empty frame
IndRequired ==
  /\ ind_pc = "required"
  /\ IF missing_cols(ind_data) # {}
     THEN ind_result' = EmptyFrame /\ ind_pc' = "done"
     ELSE ind_pc' = "calculate" /\ UNCHANGED ind_result
  /\ UNCHANGED <<nonIndVars, ind_columns, ind_rows, ind_data>>

\* the try block: a column that is read and absent raises KeyError, any other
\* failure raises too, and both handlers return the empty frame; otherwise
\* the rows without an undefined indicator value are returned (how many are
\* lost depends on the window lengths and is left open here)
IndCalculate ==
  /\ ind_pc = "calculate"
  /\ \E fails \in BOOLEAN, kept \in 0..ind_rows :
       ind_result' = IF fails \/ ~(required_cols \subseteq Range(ind_data))
                     THEN EmptyFrame
                     ELSE [columns |-> feature_cols, rows |-> kept]
  /\ ind_pc' = "done"
  /\ UNCHANGED <<nonIndVars, ind_columns, ind_rows, ind_data>>

IndNext == IndEntry \/ IndLowercase \/ IndDedup \/ IndRequired \/ IndCalculate

SpecIndicators == IndInit /\ [][IndNext]_vars

(***************************************************************************)
(* compute_rsi                                                             *)
(***************************************************************************)
\* the smoothing period (14 in compute_indicators) and the longest series
period == 2
MaxSeries == 5

\* finite closes
SeriesValues == {1, 2, 3}

\* an undefined entry of a float series
NaNF == [n |-> 0, d |-> 0]

RECURSIVE Pow(_, _)
Pow(b, e) == IF e = 0 THEN 1 ELSE b * Pow(b, e - 1)

\* series.diff(): undefined at the first row
Diff(series) ==
  [i \in 1..Len(series) |->
     IF i = 1 THEN NaNF ELSE FromInt(series[i] - series[i - 1])]

\* delta.clip(lower=0) and -delta.clip(upper=0)
Gain(delta) == [i \in DOMAIN delta |-> IF delta[i] = NaNF THEN NaNF ELSE FMax(delta[i], Zero)]
Loss(delta) ==
  [i \in DOMAIN delta |-> IF delta[i] = NaNF THEN NaNF ELSE FNeg(FMin(delta[i], Zero))]

\* the defined rows up to row i
Observed(x, i) == {j \in 1..i : x[j] # NaNF}

\* sum over a set of rows of weight * value, weights as integers
RECURSIVE WeightedSum(_, _, _)
WeightedSum(x, w, rows) ==
  IF rows = {} THEN Zero
  ELSE LET j == CHOOSE r \in rows : TRUE
       IN  FAdd(FMul(FromInt(w[j]), x[j]), WeightedSum(x, w, rows \ {j}))

RECURSIVE IntSum(_, _)
IntSum(w, rows) ==
  IF rows = {} THEN 0
  ELSE LET j == CHOOSE r \in rows : TRUE IN w[j] + IntSum(w, rows \ {j})

\* x.ewm(com=p - 1, min_periods=p).mean(): at row i the average of the defined
\* rows j <= i with weights (1 - 1/p)^(i - j), undefined while fewer than p
\* rows are defined (the weights are written over the common denominator
\* p^(i - 1))
Ewm(x, p) ==
  [i \in DOMAIN x |->
     LET rows == Observed(x, i)
         w == [j \in 1..i |-> Pow(p - 1, i - j) * Pow(p, j - 1)]
     IN  IF Cardinality(rows) < p THEN NaNF
         ELSE FDiv(WeightedSum(x, w, rows), FromInt(IntSum(w, rows)))]

\* avg_gain / avg_loss.replace(0, np.nan)
Rs(avg_gain, avg_loss) ==
  [i \in DOMAIN avg_gain |->
     IF avg_gain[i] = NaNF \/ avg_loss[i] = NaNF \/ avg_loss[i] = Zero
     THEN NaNF ELSE FDiv(avg_gain[i], avg_loss[i])]

\* 100 - (100 / (1 + rs))
RsiOf(rs) ==
  [i \in DOMAIN rs |->
     IF rs[i] = NaNF THEN NaNF
     ELSE FSub(FromInt(100), FDiv(FromInt(100), FAdd(One, rs[i])))]

\* x.fillna(v)
FillNa(x, v) == [i \in DOMAIN x |-> IF x[i] = NaNF THEN v ELSE x[i]]

\* x.bfill(): an undefined row takes the next defined value, if there is one
BFill(x) ==
  [i \in DOMAIN x |->
     IF x[i] # NaNF \/ \A j \in i..Len(x) : x[j] = NaNF THEN x[i]
     ELSE x[CHOOSE j \in i..Len(x) : x[j] # NaNF /\ \A k \in i..(j - 1) : x[k] = NaNF]]

\* a call of compute_rsi(series, period)
RsiInit ==
  /\ today = Today /\ PERFORM_SENTIMENT = FALSE /\ sentiment_data = <<>>
  /\ training_data = <<>> /\ last_date \in LastDates
  /\ pc = "idle"
  /\ sent_pc = "idle" /\ sent_caller = "none" /\ sent_dates = <<>>
  /\ LocalsInit
  /\ AppIdle /\ IndIdle /\ ToolIdle
  /\ rsi_pc = "entry"
  /\ rsi_series \in UNION {[1..l -> SeriesValues] : l \in 0..MaxSeries}
  /\ rsi_out = None

nonRsiVars == <<inputVars, pc, prepVars, rollVars, finalVars, future_dates,
                future_sentiment, result, sentVars, appVars, indVars, toolVars>>

\* delta, gain, loss and their smoothed averages
RsiSmooth ==
  /\ rsi_pc = "entry"
  /\ LET delta == Diff(rsi_series)
     IN  rsi_out' = [avg_gain |-> Ewm(Gain(delta), period),
                     avg_loss |-> Ewm(Loss(delta), period)]
  /\ rsi_pc' = "ratio"
  /\ UNCHANGED <<nonRsiVars, rsi_series>>

\* rs and the raw rsi
RsiRatio ==
  /\ rsi_pc = "ratio"
  /\ rsi_out' = [avg_gain |-> rsi_out.avg_gain, avg_loss |-> rsi_out.avg_loss,
                 rsi |-> RsiOf(Rs(rsi_out.avg_gain, rsi_out.avg_loss))]
  /\ rsi_pc' = "fill"
  /\ UNCHANGED <<nonRsiVars, rsi_series>>

\* rsi.fillna(100) and then rsi.bfill(); return rsi
RsiFill ==
  /\ rsi_pc = "fill"
  /\ rsi_out' = [rsi_out EXCEPT !.rsi = BFill(FillNa(rsi_out.rsi, FromInt(100)))]
  /\ rsi_pc' = "done"
  /\ UNCHANGED <<nonRsiVars, rsi_series>>

RsiNext == RsiSmooth \/ RsiRatio \/ RsiFill

SpecRsi == RsiInit /\ [][RsiNext]_vars

(***************************************************************************)
(* compute_indicators: the calculations of the try block                   *)
(***************************************************************************)
\* the longest table with high, low and volume of their own, and the longest
\* table whose rows differ in the close only
MaxTable == 4
MaxCloses == 5

\* vol_window and ema_window (both 20 in predict_future), rsi_ma_length (9)
\* and the two spans of the MACD (12 and 26), scaled down
vol_window == 3
ema_window == 2
rsi_ma_length == 2
macd_fast == 2
macd_slow == 3

\* rows of a price table: a flat day, a day with a range, a day that gaps
\* away from the days before, a day with a larger volume, a day with a
\* negative close, and a malformed day whose high is below its low
TableRows ==
  { [close |-> 1, high |-> 1, low |-> 1, volume |-> 1],
    [close |-> 2, high |-> 3, low |-> 1, volume |-> 1],
    [close |-> 3, high |-> 3, low |-> 3, volume |-> 1],
    [close |-> 2, high |-> 2, low |-> 2, volume |-> 2],
    [close |-> -1, high |-> 0, low |-> -1, volume |-> 2],
    [close |-> 2, high |-> 1, low |-> 3, volume |-> 1] }

\* rows that differ in the close only
CloseRows == { [close |-> c, high |-> c, low |-> c, volume |-> 1] : c \in {-1, 1, 2} }

\* tables handed to the try block: no undefined entries, any number of rows
\* from one on (an empty table returns before the try block)
Tables ==
  UNION {[1..l -> TableRows] : l \in 1..MaxTable}
    \cup UNION {[1..l -> CloseRows] : l \in 1..MaxCloses}

\* a float column of the table
FloatColumn(df, name) ==
  [i \in 1..Len(df) |->
     FromInt(CASE name = "close" -> df[i].close
               [] name = "high" -> df[i].high
               [] name = "low" -> df[i].low
               [] name = "volume" -> df[i].volume)]

\* x.ewm(span=span, adjust=False).mean() of a column without undefined
\* entries: y[0] = x[0], y[i] = (1 - a) * y[i-1] + a * x[i] with a = 2 / (span + 1)
RECURSIVE EwmSpan(_, _)
EwmSpan(x, span) ==
  IF Len(x) <= 1 THEN x
  ELSE LET before == EwmSpan(SubSeq(x, 1, Len(x) - 1), span)
       IN  Append(before,
                  FDiv(FAdd(FMul(FromInt(span - 1), before[Len(before)]),
                            FMul(FromInt(2), x[Len(x)])),
                       FromInt(span + 1)))

\* a - b and abs(a) on entries that may be undefined
SubNa(a, b) == IF a = NaNF \/ b = NaNF THEN NaNF ELSE FSub(a, b)
AbsNa(a) == IF a = NaNF THEN NaNF ELSE IF a.n < 0 THEN FNeg(a) ELSE a

\* x.shift(): every entry moves one row down, the first row is undefined
Shift(x) == [i \in DOMAIN x |-> IF i = 1 THEN NaNF ELSE x[i - 1]]

\* x.diff() of a float column
DiffNa(x) == [i \in DOMAIN x |-> SubNa(x[i], Shift(x)[i])]

\* compute_rsi(series, period)
compute_rsi(series, p) ==
  LET delta == Diff(series)
  IN  BFill(FillNa(RsiOf(Rs(Ewm(Gain(delta), p), Ewm(Loss(delta), p))), FromInt(100)))

\* x.rolling(window=w).mean(): undefined until w rows are in the window and
\* while one of them is undefined
RollingMean(x, w) ==
  [i \in DOMAIN x |->
     IF i < w \/ \E j \in (i - w + 1)..i : x[j] = NaNF THEN NaNF
     ELSE Mean(SubSeq(x, i - w + 1, i))]

\* one pass of the OBV loop: obv[i] from obv[i-1]
\* mutant: a lower close leaves the sum as it is
ObvStep_IgnoreFall(prev, close, prev_close, volume) ==
  IF close > prev_close THEN prev + volume ELSE prev

ObvStep(prev, close, prev_close, volume) ==
  IF close > prev_close THEN prev + volume
  ELSE IF close < prev_close THEN prev - volume
  ELSE prev

\* obv = [0] * len(data); for i in range(1, len(data)): ...
RECURSIVE ObvAt(_, _)
ObvAt(df, i) ==
  IF i = 1 THEN 0
  ELSE ObvStep(ObvAt(df, i - 1), df[i].close, df[i - 1].close, df[i].volume)

\* mutant: the sum is kept with its sign turned
ObvLoop_Negated(df) == [i \in 1..Len(df) |-> 0 - ObvAt(df, i)]

ObvLoop(df) == [i \in 1..Len(df) |-> ObvAt(df, i)]

\* MinMaxScaler().fit_transform of one column
MinMaxColumn(x) ==
  LET scale == FDiv(One, HandleZeros(FSub(SeqMax(x), SeqMin(x))))
      min0 == FSub(Zero, FMul(SeqMin(x), scale))
  IN  [i \in DOMAIN x |-> FAdd(FMul(x[i], scale), min0)]

\* tr_df.max(axis=1, skipna=True): the largest defined entry of the row
\* mutant: an undefined entry makes the row undefined
RowMax_Propagate(row) ==
  IF \E k \in DOMAIN row : row[k] = NaNF THEN NaNF ELSE SeqMax(row)

RowMax(row) ==
  LET defined == SelectSeq(row, LAMBDA v : v # NaNF)
  IN  IF defined = <<>> THEN NaNF ELSE SeqMax(defined)

\* high_low, high_prev_close, low_prev_close and their row maximum
TrueRange(df) ==
  LET high == FloatColumn(df, "high")
      low == FloatColumn(df, "low")
      prev_close == Shift(FloatColumn(df, "close"))
  IN  [i \in 1..Len(df) |->
         RowMax(<<FSub(high[i], low[i]),
                  AbsNa(SubNa(high[i], prev_close[i])),
                  AbsNa(SubNa(low[i], prev_close[i]))>>)]

\* an infinite float
InfF == [n |-> 1, d |-> 0]

\* the value a + b * sqrt(rad) with rational a, b and rad
Surd(a, b, rad) == [a |-> a, b |-> b, rad |-> rad]

\* the sample variance of a window (ddof = 1)
Variance(w) ==
  LET m == Mean(w)
  IN  FDiv(FSum([i \in 1..Len(w) |-> FMul(FSub(w[i], m), FSub(w[i], m))]),
           FromInt(Len(w) - 1))

\* x.rolling(window=w).std(): the root of the sample variance of the last w
\* rows, undefined until w rows are in the window
RollingStd(x, w) ==
  [i \in DOMAIN x |->
     IF i < w THEN NaNF ELSE Surd(Zero, One, Variance(SubSeq(x, i - w + 1, i)))]

\* EMA20.replace(0, np.nan)
\* mutant: a zero divisor stays
ReplaceZero_Keep(x) == x

ReplaceZero(x) == [i \in DOMAIN x |-> IF x[i] = Zero THEN NaNF ELSE x[i]]

\* (UpperBB - LowerBB) / divisor with UpperBB = EMA20 + 2 * StdDev and
\* LowerBB = EMA20 - 2 * StdDev: 4 * StdDev over the divisor, by the float
\* rules for an undefined operand and for a zero divisor
BandWidth(ema, std, divisor) ==
  [i \in DOMAIN ema |-> 
     IF std[i] = NaNF \/ divisor[i] = NaNF THEN NaNF
     ELSE IF divisor[i] = Zero
          THEN IF std[i].rad = Zero THEN NaNF ELSE InfF
          ELSE Surd(Zero, FDiv(FMul(FromInt(4), std[i].b), divisor[i]), std[i].rad)]

\* data[final_feature_cols]: row i of the nine feature columns
FeatureRow(df, data, i) ==
  <<FromInt(df[i].close), data.EMA20[i], data.MACD[i], data.RSI_MA[i],
    data.RSI_Slope[i], data.OBV[i], data.ATR[i], data.StdDev[i], data.BBWidth[i]>>

\* the rows dropna() keeps: those without an undefined entry
\* mutant: the first row is kept whatever it holds
KeptRows_FirstToo(df, data) ==
  {i \in 1..Len(df) : i = 1 \/ \A k \in 1..Len(feature_cols) : FeatureRow(df, data, i)[k] # NaNF}

KeptRows(df, data) ==
  {i \in 1..Len(df) : \A k \in 1..Len(feature_cols) : FeatureRow(df, data, i)[k] # NaNF}

\* the returned frame: the kept rows in order with their input positions;
\* pd.DataFrame(columns=final_feature_cols) when no row is left
FeatureFrame(df, data) ==
  LET index == SortedSeq(KeptRows(df, data))
  IN  [columns |-> feature_cols,
       index |-> index,
       rows |-> [r \in 1..Len(index) |-> FeatureRow(df, data, index[r])]]

\* the columns of the working copy before the first calculation
NoColumns ==
  [EMA20 |-> <<>>, MACD |-> <<>>, RSI |-> <<>>, RSI_MA |-> <<>>, RSI_Slope |-> <<>>,
   obv |-> <<>>, OBV |-> <<>>, tr |-> <<>>, ATR |-> <<>>, StdDev |-> <<>>,
   BBWidth |-> <<>>]

\* compute_indicators(df, vol_window, ema_window) at the start of its try block
CalcInit ==
  /\ today = Today /\ PERFORM_SENTIMENT = FALSE /\ sentiment_data = <<>>
  /\ training_data = <<>> /\ last_date \in LastDates
  /\ pc = "idle"
  /\ sent_pc = "idle" /\ sent_caller = "none" /\ sent_dates = <<>>
  /\ LocalsInit
  /\ AppIdle /\ IndIdle /\ RsiIdle /\ StockIdle /\ DlgIdle
  /\ calc_pc = "averages"
  /\ calc_df \in Tables
  /\ calc_data = NoColumns
  /\ calc_result = None

nonCalcVars == <<inputVars, pc, prepVars, rollVars, finalVars, future_dates,
                 future_sentiment, result, sentVars, appVars, indVars, rsiVars,
                 stockVars, dlgVars>>

\* EMA20, MACD, RSI, RSI_MA, RSI_Slope
CalcAverages ==
  /\ calc_pc = "averages"
  /\ LET close == FloatColumn(calc_df, "close")
         rsi == compute_rsi([i \in 1..Len(calc_df) |-> calc_df[i].close], period)
         rsi_ma == RollingMean(rsi, rsi_ma_length)
     IN  calc_data' = [calc_data EXCEPT
                         !.EMA20 = EwmSpan(close, ema_window),
                         !.MACD = [i \in 1..Len(close) |->
                                     FSub(EwmSpan(close, macd_fast)[i],
                                          EwmSpan(close, macd_slow)[i])],
                         !.RSI = rsi,
                         !.RSI_MA = rsi_ma,
                         !.RSI_Slope = DiffNa(rsi_ma)]
  /\ calc_pc' = "obv"
  /\ UNCHANGED <<nonCalcVars, calc_df, calc_result>>

\* the OBV loop
CalcObv ==
  /\ calc_pc = "obv"
  /\ calc_data' = [calc_data EXCEPT !.obv = ObvLoop(calc_df)]
  /\ calc_pc' = "obv_scale"
  /\ UNCHANGED <<nonCalcVars, calc_df, calc_result>>

\* data["OBV"] = MinMaxScaler().fit_transform(data[["OBV"]])
CalcObvScale ==
  /\ calc_pc = "obv_scale"
  /\ calc_data' = [calc_data EXCEPT
                     !.OBV = MinMaxColumn([i \in DOMAIN calc_data.obv |->
                                             FromInt(calc_data.obv[i])])]
  /\ calc_pc' = "atr"
  /\ UNCHANGED <<nonCalcVars, calc_df, calc_result>>

\* the true range and its average
CalcAtr ==
  /\ calc_pc = "atr"
  /\ calc_data' = [calc_data EXCEPT
                     !.tr = TrueRange(calc_df),
                     !.ATR = EwmSpan(TrueRange(calc_df), vol_window)]
  /\ calc_pc' = "bands"
  /\ UNCHANGED <<nonCalcVars, calc_df, calc_result>>

\* StdDev and the back-filled BBWidth
CalcBands ==
  /\ calc_pc = "bands"
  /\ LET std == RollingStd(FloatColumn(calc_df, "close"), vol_window)
     IN  calc_data' = [calc_data EXCEPT
                         !.StdDev = std,
                         !.BBWidth = BFill(BandWidth(calc_data.EMA20, std,
                                                     ReplaceZero(calc_data.EMA20)))]
  /\ calc_pc' = "select"
  /\ UNCHANGED <<nonCalcVars, calc_df, calc_result>>

\* data[final_feature_cols].dropna() and the return
CalcSelect ==
  /\ calc_pc = "select"
  /\ calc_result' = FeatureFrame(calc_df, calc_data)
  /\ calc_pc' = "done"
  /\ UNCHANGED <<nonCalcVars, calc_df, calc_data>>

\* predict_future with the returned frame: the empty result when the frame
\* is empty or the windowing loop yields no window, model training otherwise
CalcCaller ==
  /\ calc_pc = "done"
  /\ calc_pc' = IF calc_result.rows = <<>> THEN "insufficient"
                ELSE IF Len(MakeWindows(calc_result.rows, time_step).X) = 0
                     THEN "insufficient"
                     ELSE "train"
  /\ UNCHANGED <<nonCalcVars, calc_df, calc_data, calc_result>>

CalcNext ==
  \/ CalcAverages \/ CalcObv \/ CalcObvScale \/ CalcAtr \/ CalcBands \/ CalcSelect
  \/ CalcCaller

SpecCalc == CalcInit /\ [][CalcNext]_vars

(***************************************************************************)
(* get_stock_data                                                          *)
(***************************************************************************)
\* pd.DataFrame()
EmptyTable == [columns |-> <<>>, index |-> <<>>]

\* the column names of a yfinance table, in its order
YfNames == <<"Open", "High", "Low", "Close", "Volume">>

\* the names at the positions of a set, in order
NamesAt(S) == [k \in 1..Cardinality(S) |-> YfNames[SortedSeq(S)[k]]]

\* what yf.download can do: raise, return None, or return a table with some
\* of the columns and with rows dated around the requested end date; a
\* column label is the tuple of its levels, (name) in a flat Index and
\* (name, ticker) in a MultiIndex
Downloads(end) ==
  { [kind |-> "raise", table |-> EmptyTable], [kind |-> "none", table |-> EmptyTable] }
    \cup
  { [kind |-> "table",
     table |-> [columns |-> IF multi THEN [k \in DOMAIN NamesAt(S) |-> <<NamesAt(S)[k], "T">>]
                            ELSE [k \in DOMAIN NamesAt(S) |-> <<NamesAt(S)[k]>>],
                index |-> SortedSeq(D)]] :
      S \in SUBSET (1..5), D \in SUBSET {end - 1, end, end + 1}, multi \in BOOLEAN }

\* data[data.index <= pd.to_datetime(end_date)]
\* mutant: nothing is filtered
FilterEnd_KeepAll(table, end) == table

FilterEnd(table, end) ==
  [columns |-> table.columns,
   index |-> SelectSeq(table.index, LAMBDA d : d <= end)]

\* col[0].lower() for a MultiIndex, col.lower() otherwise
LowerColumns(columns) ==
  [k \in DOMAIN columns |->
     LowerName(columns[k][1])]

stock_required_cols == {"open", "high", "low", "close", "volume"}

\* return pd.DataFrame(): the function returns the empty table
ReturnEmpty == [raised |-> FALSE, data |-> EmptyTable]

\* except Exception as processing_err / as outer_err: both handlers print the
\* error and return the empty table
ExceptionHandler == ReturnEmpty

\* a call of get_stock_data(symbol, start_date, end_date)
StockInit ==
  /\ today = Today /\ PERFORM_SENTIMENT = FALSE /\ sentiment_data = <<>>
  /\ training_data = <<>> /\ last_date \in LastDates
  /\ pc = "idle"
  /\ sent_pc = "idle" /\ sent_caller = "none" /\ sent_dates = <<>>
  /\ LocalsInit
  /\ AppIdle /\ IndIdle /\ RsiIdle /\ CalcIdle /\ DlgIdle
  /\ stock_pc = "download"
  /\ stock_end \in {Today - 1, Today}
  /\ stock_download \in Downloads(stock_end)
  /\ stock_data = EmptyTable
  /\ stock_result = None

nonStockVars == <<inputVars, pc, prepVars, rollVars, finalVars, future_dates,
                  future_sentiment, result, sentVars, appVars, indVars, rsiVars,
                  calcVars, dlgVars>>

\* the inner try: data = yf.download(...); None and an exception give the
\* empty table
StockDownload ==
  /\ stock_pc = "download"
  /\ stock_data' = IF stock_download.kind = "table" THEN stock_download.table
                   ELSE EmptyTable
  /\ stock_pc' = "filter"
  /\ UNCHANGED <<nonStockVars, stock_end, stock_download, stock_result>>

\* if data.empty: nothing is processed; else the rows after the end date are
\* filtered out and an empty remainder returns the empty table; an exception
\* here reaches the outer handler, which returns the empty table
StockFilter ==
  /\ stock_pc = "filter"
  /\ \E fails \in BOOLEAN :
       IF IsEmptyTable(stock_data.columns, Len(stock_data.index))
       THEN /\ stock_pc' = "final"
            /\ UNCHANGED <<stock_data, stock_result>>
       ELSE IF fails
       THEN /\ stock_result' = ExceptionHandler
            /\ stock_pc' = "returned"
            /\ UNCHANGED stock_data
       ELSE LET filtered == FilterEnd(stock_data, stock_end)
            IN  IF IsEmptyTable(filtered.columns, Len(filtered.index))
                THEN /\ stock_result' = ReturnEmpty
                     /\ stock_pc' = "returned"
                     /\ stock_data' = filtered
                ELSE /\ stock_data' = filtered
                     /\ stock_pc' = "columns"
                     /\ UNCHANGED stock_result
  /\ UNCHANGED <<nonStockVars, stock_end, stock_download>>

\* the column names are lower-cased and the core columns required; a failure
\* of this block and a missing core column return the empty table
StockColumns ==
  /\ stock_pc = "columns"
  /\ \E fails \in BOOLEAN :
       LET lowered == LowerColumns(stock_data.columns)
       IN  IF fails \/ stock_required_cols \ Range(lowered) # {}
           THEN /\ stock_result' = IF fails THEN ExceptionHandler ELSE ReturnEmpty
                /\ stock_pc' = "returned"
                /\ stock_data' = IF fails THEN stock_data
                                 ELSE [stock_data EXCEPT !.columns = lowered]
           ELSE /\ stock_data' = [stock_data EXCEPT !.columns = lowered]
                /\ stock_pc' = "final"
                /\ UNCHANGED stock_result
  /\ UNCHANGED <<nonStockVars, stock_end, stock_download>>

\* return data
StockFinal ==
  /\ stock_pc = "final"
  /\ stock_result' = [raised |-> FALSE, data |-> stock_data]
  /\ stock_pc' = "returned"
  /\ UNCHANGED <<nonStockVars, stock_end, stock_download, stock_data>>

StockNext == StockDownload \/ StockFilter \/ StockColumns \/ StockFinal

SpecStock == StockInit /\ [][StockNext]_vars

(***************************************************************************)
(* select_date_range: the date dialog                                      *)
(***************************************************************************)
\* Submit clicks that are followed in one dialog
MaxClicks == 3

\* the days on which the dialog is used
Todays == {<<2024, 2, 29>>, <<2024, 3, 31>>, <<2025, 1, 1>>, <<2026, 11, 3>>}

\* what the entry can hold when Submit is clicked ("3" is its default), and
\* the values of the read-only combobox
EntryTexts == {"", "abc", "2.5", "0", "-2", " 3 ", "1", "3", "14", "5000", "800000"}
Units == {"Days", "Months", "Years"}

\* int(text): surrounding blanks are ignored, anything but an optionally
\* signed run of digits raises ValueError
IntOf(text) ==
  CASE text = "0" -> [ok |-> TRUE, value |-> 0]
    [] text = "-2" -> [ok |-> TRUE, value |-> -2]
    [] text = "1" -> [ok |-> TRUE, value |-> 1]
    [] text \in {"3", " 3 "} -> [ok |-> TRUE, value |-> 3]
    [] text = "14" -> [ok |-> TRUE, value |-> 14]
    [] text = "5000" -> [ok |-> TRUE, value |-> 5000]
    [] text = "800000" -> [ok |-> TRUE, value |-> 800000]
    [] OTHER -> [ok |-> FALSE, value |-> 0]

\* the proleptic Gregorian calendar of datetime.date
IsLeap(y) == (y % 4 = 0 /\ y % 100 # 0) \/ y % 400 = 0
DaysInMonth(y, m) ==
  CASE m = 2 -> IF IsLeap(y) THEN 29 ELSE 28
    [] m \in {4, 6, 9, 11} -> 30
    [] OTHER -> 31
DaysBeforeYear(y) ==
  365 * (y - 1) + ((y - 1) \div 4) - ((y - 1) \div 100) + ((y - 1) \div 400)
RECURSIVE DaysBeforeMonth(_, _)
DaysBeforeMonth(y, m) ==
  IF m = 1 THEN 0 ELSE DaysBeforeMonth(y, m - 1) + DaysInMonth(y, m - 1)
ToOrdinal(date) == DaysBeforeYear(date[1]) + DaysBeforeMonth(date[1], date[2]) + date[3]
FromOrdinal(o) ==
  LET y == CHOOSE yy \in (o \div 366)..(o \div 365 + 1) :
             DaysBeforeYear(yy) < o /\ o <= DaysBeforeYear(yy + 1)
      n == o - DaysBeforeYear(y)
      m == CHOOSE mm \in 1..12 :
             DaysBeforeMonth(y, mm) < n /\ n <= DaysBeforeMonth(y, mm) + DaysInMonth(y, mm)
  IN  <<y, m, n - DaysBeforeMonth(y, m)>>

\* a < b on dates
DateLt(a, b) ==
  \/ a[1] < b[1]
  \/ a[1] = b[1] /\ a[2] < b[2]
  \/ a[1] = b[1] /\ a[2] = b[2] /\ a[3] < b[3]

\* the outcomes of a date calculation: a date, or an exception
Raised == [raised |-> TRUE, date |-> NoDate]
Value(date) == [raised |-> FALSE, date |-> date]

\* end_date - timedelta(days=count): OverflowError when the day lies before
\* date.min
MinusDays(date, count) ==
  IF ToOrdinal(date) - count < 1 THEN {Raised}
  ELSE {Value(FromOrdinal(ToOrdinal(date) - count))}

\* the first date a nanosecond Timestamp holds; older pandas raises
\* OutOfBoundsDatetime below it, newer pandas keeps the date
TimestampFloor == <<1677, 9, 22>>
AsTimestamp(date) ==
  IF date[1] < 1 THEN {Raised}
  ELSE IF DateLt(date, TimestampFloor) THEN {Raised, Value(date)}
  ELSE {Value(date)}

\* (end_date - pd.DateOffset(months=count)).date(): the month moves back,
\* the day is cut to the length of the month reached
MinusMonths(date, count) ==
  LET total == date[1] * 12 + (date[2] - 1) - count
      y == IF total >= 0 THEN total \div 12 ELSE 0
      m == IF total >= 0 THEN (total % 12) + 1 ELSE 1
      d == IF date[3] > DaysInMonth(y, m) THEN DaysInMonth(y, m) ELSE date[3]
  IN  AsTimestamp(<<y, m, d>>)

\* (end_date - pd.DateOffset(years=count)).date()
MinusYears(date, count) ==
  LET y == date[1] - count
      d == IF date[3] > DaysInMonth(y, date[2]) THEN DaysInMonth(y, date[2]) ELSE date[3]
  IN  AsTimestamp(<<y, date[2], d>>)

\* self.dates[key] = value
SetItem(dates, key, value) ==
  PyDict({p \in dates.items : p[1] # key} \cup {<<key, value>>})
Keys(dates) == {p[1] : p \in dates.items}
GetItem(dates, key) == (CHOOSE p \in dates.items : p[1] = key)[2]

\* what a call of submit_dates can leave behind: self.dates, and whether the
\* window is still there
KeepOpen == [dates |-> PyDict({}), window |-> "open"]
SubmitOutcomes(end_date, text, unit) ==
  LET count == IntOf(text)
  IN  IF ~count.ok \/ count.value <= 0 THEN {KeepOpen}
      ELSE IF unit \notin Units THEN {KeepOpen}
      ELSE LET starts == CASE unit = "Days" -> MinusDays(end_date, count.value)
                           [] unit = "Months" -> MinusMonths(end_date, count.value)
                           [] unit = "Years" -> MinusYears(end_date, count.value)
           IN  { IF s.raised THEN KeepOpen
                 ELSE IF ~DateLt(s.date, end_date) THEN KeepOpen
                 ELSE [dates |-> SetItem(SetItem(PyDict({}), "start", s.date),
                                         "end", end_date),
                       window |-> "destroyed"] : s \in starts }

\* cancel_date_selection: self.dates = None
\* mutant: the close handler leaves self.dates as it is
CancelDates_Keep(dates) == dates
CancelDates(dates) == PyNone

DlgInit ==
  /\ today = Today /\ PERFORM_SENTIMENT = FALSE /\ sentiment_data = <<>>
  /\ training_data = <<>> /\ last_date \in LastDates
  /\ pc = "idle"
  /\ sent_pc = "idle" /\ sent_caller = "none" /\ sent_dates = <<>>
  /\ LocalsInit
  /\ AppIdle /\ IndIdle /\ RsiIdle /\ CalcIdle /\ StockIdle
  /\ dlg_pc = "open"
  /\ dlg_today \in Todays
  /\ self_dates = PyNone
  /\ dlg_clicks = NoClicks
  /\ dlg_result = PyNone

nonDlgVars == <<inputVars, pc, prepVars, rollVars, finalVars, future_dates,
                future_sentiment, result, sentVars, appVars, indVars, rsiVars,
                calcVars, stockVars>>

\* a click on Submit: submit_dates runs to its end
DlgSubmit ==
  /\ dlg_pc = "open"
  /\ dlg_clicks.n < MaxClicks
  /\ \E text \in EntryTexts, unit \in Units :
       \E out \in SubmitOutcomes(dlg_today, text, unit) :
         /\ self_dates' = out.dates
         /\ dlg_pc' = out.window
         /\ dlg_clicks' = [n |-> dlg_clicks.n + 1, text |-> text, unit |-> unit]
  /\ UNCHANGED <<nonDlgVars, dlg_today, dlg_result>>

\* the window is closed: cancel_date_selection
DlgClose ==
  /\ dlg_pc = "open"
  /\ self_dates' = CancelDates(self_dates)
  /\ dlg_pc' = "destroyed"
  /\ UNCHANGED <<nonDlgVars, dlg_today, dlg_clicks, dlg_result>>

\* wait_window is over: return self.dates
DlgReturn ==
  /\ dlg_pc = "destroyed"
  /\ dlg_result' = self_dates
  /\ dlg_pc' = "returned"
  /\ UNCHANGED <<nonDlgVars, dlg_today, self_dates, dlg_clicks>>

\* run_analysis_steps: None restarts the input sequence, anything else is
\* read at 'start' and 'end'
DlgCaller ==
  /\ dlg_pc = "returned"
  /\ dlg_pc' = IF dlg_result.none THEN "restart"
               ELSE IF {"start", "end"} \subseteq Keys(dlg_result) THEN "fetch"
               ELSE "KeyError"
  /\ UNCHANGED <<nonDlgVars, dlg_today, self_dates, dlg_clicks, dlg_result>>

DlgNext == DlgSubmit \/ DlgClose \/ DlgReturn \/ DlgCaller

SpecDialog == DlgInit /\ [][DlgNext]_vars

(***************************************************************************)
(* The application: run_analysis_steps, the fetch thread, display_plot     *)
(***************************************************************************)
\* the number of analysis runs that are followed ('Reselect Symbol' starts one)
MaxRuns == 2

\* the statements of fetch_sentiment_data_threaded, in order
\* mutant: the callback is scheduled before the fetch
FetchThreadProgram_CallbackFirst == <<"reset", "schedule", "fetch">>

FetchThreadProgram == <<"reset", "fetch", "schedule">>

\* self.sentiment_data = {} at the start of the fetch
\* mutant: the map of the run before is kept
ResetSentiment_Keep(old) == old

ResetSentiment(old) == <<>>

\* if PERFORM_SENTIMENT: start the thread, else: display_plot at once
StartsFetchThread(flag) == flag

\* the locals of a new call of predict_future (and of the forecaster it calls)
FreshFrame ==
  /\ features_df' = <<>> /\ scaler' = None /\ close_scaler' = None
  /\ scaled_data' = <<>> /\ train_set' = None /\ model' = None
  /\ current_batch' = <<>> /\ predicted_scaled_prices' = <<>> /\ rollout_log' = <<>>
  /\ predicted_prices' = <<>> /\ adjusted_prices' = <<>> /\ future_dates' = <<>>
  /\ future_sentiment' = None /\ final_adjusted_prices' = <<>> /\ noise' = <<>>
  /\ noisy_final_prices' = <<>> /\ result' = None
  /\ sent_pc' = "idle" /\ sent_caller' = "none" /\ sent_dates' = <<>>
  /\ hist_dates_ord' = <<>> /\ hist_sentiments' = <<>> /\ sent_path' = "none"
  /\ sent_result' = None

frameVars == <<prepVars, rollVars, finalVars, future_dates, future_sentiment, result,
               sentVars>>

\* run(): run_analysis_steps is scheduled, then the main loop starts
AppInit ==
  /\ today = Today
  /\ PERFORM_SENTIMENT \in BOOLEAN
  /\ sentiment_data = <<>>
  /\ training_data = <<>>
  /\ last_date \in LastDates
  /\ pc = "idle"
  /\ sent_pc = "idle" /\ sent_caller = "none" /\ sent_dates = <<>>
  /\ LocalsInit
  /\ app_pc = "mainloop" /\ after_queue = <<"run_analysis_steps">>
  /\ thread_pc = 0 /\ run_no = 1 /\ run_fetch = NoFetch /\ thread_runs = 0
  /\ message = "none" /\ plot_window = "none" /\ plotted = None
  /\ plot_origin = "none" /\ tk_error = FALSE
  /\ symbol = "" /\ fetch_log = <<>> /\ loading_news_window = "none"
  /\ callbacks_scheduled = 0
  /\ IndIdle /\ RsiIdle /\ ToolIdle

\* loading_news_window.grab_release(); loading_news_window.destroy()
\* mutant: the loading window is left as it is
CloseLoadingWindow_Leave(w) == w

CloseLoadingWindow(w) == "none"

\* the main loop runs the oldest scheduled callback: run_analysis_steps, or
\* after_sentiment_fetch, which closes the loading window and calls
\* display_plot and so predict_future
RunCallback ==
  /\ app_pc = "mainloop"
  /\ after_queue # <<>>
  /\ after_queue' = Tail(after_queue)
  /\ IF Head(after_queue) = "run_analysis_steps"
     THEN /\ app_pc' = "input"
          /\ UNCHANGED <<pc, frameVars, plot_window, plot_origin, loading_news_window>>
     ELSE /\ loading_news_window' = CloseLoadingWindow(loading_news_window)
          /\ app_pc' = "plot"
          /\ plot_origin' = "callback"
          /\ plot_window' = "building"
          /\ pc' = "start"
          /\ FreshFrame
  /\ UNCHANGED <<inputVars, thread_pc, run_no, run_fetch, thread_runs, message,
                 plotted, tk_error, indVars, rsiVars, toolVars,
                 symbol, fetch_log, callbacks_scheduled>>

\* what the user may type at the symbol prompt
TypedSymbols == {"  ", "aapl", "1155kl", "1155 kl", "0700.hk"}

\* symbol_input.strip().upper()
StripUpper(typed) ==
  CASE typed = "  " -> ""
    [] typed = "aapl" -> "AAPL"
    [] typed = "1155kl" -> "1155KL"
    [] typed = "1155 kl" -> "1155 KL"
    [] typed = "0700.hk" -> "0700.HK"

\* a symbol without a dot that is digits and letters, with or without a
\* space between them, gets a dot between the two groups
Normalize(entered) ==
  CASE entered \in {"1155KL", "1155 KL"} -> "1155.KL"
    [] OTHER -> entered

\* if not data.empty: fetch_..._success = True
\* mutant: every fetch counts as a success
FetchSucceeded_Always(rows) == TRUE

FetchSucceeded(rows) == rows > 0

\* one pass of the input loop of run_analysis_steps, from the symbol prompt to
\* the check of the training data
InputSequence ==
  /\ app_pc = "input"
  /\ \/ \* the symbol prompt is cancelled: on_close() and return
        /\ app_pc' = "closed" /\ fetch_log' = <<>>
        /\ UNCHANGED <<message, training_data, last_date, symbol>>
     \/ \E typed \in TypedSymbols :
          LET entered == StripUpper(typed)
              normalized == Normalize(entered)
              display_call(rows) == [symbol |-> normalized, purpose |-> "display",
                                     rows |-> rows]
              training_call(rows) == [symbol |-> normalized, purpose |-> "training",
                                      rows |-> rows]
              Restart(msg, sym, calls) ==
                /\ app_pc' = "input" /\ message' = msg
                /\ symbol' = sym /\ fetch_log' = calls
                /\ UNCHANGED <<training_data, last_date>>
          IN  IF entered = ""
              THEN Restart("input_required", entered, <<>>)
              ELSE \/ \* the date dialog is closed without dates
                      Restart("restarting", normalized, <<>>)
                   \/ \E display_rows \in {0, 1} :
                        IF ~FetchSucceeded(display_rows)
                        THEN Restart("data_error", normalized,
                                     <<display_call(display_rows)>>)
                        ELSE \/ \* the training-period prompt is cancelled
                                Restart("restarting", normalized,
                                        <<display_call(display_rows)>>)
                             \/ \E fetched \in AppTrainingSets, ld \in LastDates :
                                  LET calls == <<display_call(display_rows),
                                                 training_call(Len(fetched))>>
                                  IN  IF ~FetchSucceeded(Len(fetched))
                                      THEN Restart("data_error", normalized, calls)
                                      ELSE /\ app_pc' = "step6"
                                           /\ symbol' = normalized
                                           /\ fetch_log' = calls
                                           /\ training_data' = fetched
                                           /\ last_date' = ld
                                           /\ UNCHANGED message
  /\ UNCHANGED <<today, PERFORM_SENTIMENT, sentiment_data, pc, frameVars, after_queue,
                 thread_pc, run_no, run_fetch, thread_runs, plot_window, plotted,
                 plot_origin, tk_error, indVars, rsiVars, toolVars,
                 loading_news_window, callbacks_scheduled>>

\* step 6: show the loading window and start the fetch thread, or call
\* display_plot directly
StartAnalysis ==
  /\ app_pc = "step6"
  /\ IF StartsFetchThread(PERFORM_SENTIMENT)
     THEN /\ loading_news_window' = "up"
          /\ thread_pc' = 1
          /\ thread_runs' = thread_runs + 1
          /\ run_fetch' = [state |-> "pending", value |-> <<>>,
                            prev |-> run_fetch.value]
          /\ app_pc' = "mainloop"
          /\ UNCHANGED <<pc, frameVars, plot_window, plot_origin>>
     ELSE /\ app_pc' = "plot"
          /\ plot_origin' = "direct"
          /\ plot_window' = "building"
          /\ pc' = "start"
          /\ FreshFrame
          /\ UNCHANGED <<thread_pc, thread_runs, run_fetch, loading_news_window>>
  /\ UNCHANGED <<inputVars, after_queue, run_no, message, plotted, tk_error,
                 indVars, rsiVars, toolVars,
                 symbol, fetch_log, callbacks_scheduled>>

\* predict_future comes back to display_plot: the forecast is drawn when it has
\* prices and the buttons are added; an exception leaves display_plot and is
\* caught by run_analysis_steps (shown in a messagebox) when that called
\* display_plot, and by Tk's callback wrapper (printed) otherwise
DisplayPlotReturn ==
  /\ app_pc = "plot"
  /\ pc \in {"done", "raised"}
  /\ IF pc = "done"
     THEN /\ plotted' = IF result.prices # <<>> THEN result ELSE None
          /\ plot_window' = "shown"
          /\ UNCHANGED <<message, tk_error>>
     ELSE /\ IF plot_origin = "direct"
             THEN message' = "analysis_error" /\ UNCHANGED tk_error
             ELSE tk_error' = TRUE /\ UNCHANGED message
          /\ UNCHANGED <<plotted, plot_window>>
  /\ app_pc' = "mainloop"
  /\ pc' = "idle"
  /\ FreshFrame
  /\ UNCHANGED <<inputVars, after_queue, thread_pc, run_no, run_fetch, thread_runs,
                 plot_origin, indVars, rsiVars, toolVars,
                 symbol, fetch_log, loading_news_window, callbacks_scheduled>>

\* the 'Reselect Symbol' button of a displayed plot
ReselectSymbol ==
  /\ app_pc = "mainloop"
  /\ plot_window = "shown"
  /\ run_no < MaxRuns
  /\ plot_window' = "none"
  /\ plotted' = None
  /\ after_queue' = Append(after_queue, "run_analysis_steps")
  /\ run_no' = run_no + 1
  /\ UNCHANGED <<inputVars, pc, frameVars, app_pc, thread_pc, run_fetch, thread_runs,
                 message, plot_origin, tk_error, indVars, rsiVars, toolVars,
                 symbol, fetch_log, loading_news_window, callbacks_scheduled>>

\* the statement the fetch thread is at
ThreadAt(stmt) ==
  /\ thread_pc \in 1..Len(FetchThreadProgram)
  /\ FetchThreadProgram[thread_pc] = stmt

ThreadAdvance ==
  thread_pc' = IF thread_pc = Len(FetchThreadProgram) THEN 0 ELSE thread_pc + 1

\* self.sentiment_data = {}
ThreadReset ==
  /\ ThreadAt("reset")
  /\ sentiment_data' = ResetSentiment(sentiment_data)
  /\ ThreadAdvance
  /\ UNCHANGED <<today, PERFORM_SENTIMENT, training_data, last_date, pc, frameVars,
                 app_pc, after_queue, run_no, run_fetch, thread_runs, message,
                 plot_window, plotted, plot_origin, tk_error, indVars, rsiVars, toolVars,
                 symbol, fetch_log, loading_news_window, callbacks_scheduled>>

\* self.sentiment_data = self.get_news_sentiment(...), which returns {} at once
\* without sentiment support; or its exception handler
ThreadFetch ==
  /\ ThreadAt("fetch")
  /\ \E fails \in BOOLEAN,
        news \in (IF PERFORM_SENTIMENT THEN FetchedSentiments ELSE {<<>>}) :
       IF fails
       THEN /\ run_fetch' = [run_fetch EXCEPT !.state = "failed"]
            /\ UNCHANGED sentiment_data
       ELSE /\ run_fetch' = [run_fetch EXCEPT !.state = "returned", !.value = news]
            /\ sentiment_data' = news
  /\ ThreadAdvance
  /\ UNCHANGED <<today, PERFORM_SENTIMENT, training_data, last_date, pc, frameVars,
                 app_pc, after_queue, run_no, thread_runs, message, plot_window,
                 plotted, plot_origin, tk_error, indVars, rsiVars, toolVars,
                 symbol, fetch_log, loading_news_window, callbacks_scheduled>>

\* finally: if self.root.winfo_exists(): self.root.after(0, callback); the
\* root exists as long as the application was not shut down
ThreadSchedule ==
  /\ ThreadAt("schedule")
  /\ IF app_pc # "closed"
     THEN /\ after_queue' = Append(after_queue, "after_sentiment_fetch")
          /\ callbacks_scheduled' = callbacks_scheduled + 1
     ELSE UNCHANGED <<after_queue, callbacks_scheduled>>
  /\ ThreadAdvance
  /\ UNCHANGED <<inputVars, pc, frameVars, app_pc, run_no, run_fetch, thread_runs,
                 message, plot_window, plotted, plot_origin, tk_error, indVars,
                 rsiVars, toolVars,
                 symbol, fetch_log, loading_news_window>>

AppNext ==
  \/ RunCallback \/ InputSequence \/ StartAnalysis \/ DisplayPlotReturn
  \/ ReselectSymbol \/ ThreadReset \/ ThreadFetch \/ ThreadSchedule
  \/ ComputeFeatures \/ ScaleFeatures \/ BuildWindows \/ TrainModel
  \/ RolloutStep \/ InverseAndShift \/ SentimentBlend \/ ApplyBlend \/ NoiseAndFloor
  \/ SentCollect \/ SentCheck \/ SentFit \/ SentReturn

SpecApp == AppInit /\ [][AppNext]_vars

\* the application with a fetch thread that reaches its finally block once
\* the fetch is over, and a main loop that runs the callbacks scheduled
SpecAppLive ==
  /\ AppInit /\ [][AppNext]_vars
  /\ WF_thread_pc(ThreadSchedule) /\ WF_after_queue(RunCallback)

(***************************************************************************)
(* Properties                                                              *)
(***************************************************************************)
\* positions of predict_future after the rollout loop has been left
AfterRollout == pc # "rollout" /\ Len(rollout_log) > 0

\* the window held after k rollout steps
WindowAfter(k) ==
  IF k < Len(rollout_log) THEN rollout_log[k + 1].window ELSE current_batch

\* C1: every rollout step predicts from the current window W and replaces W by
\* W without its oldest row followed by one row that equals W's last row in
\* every non-target column and holds the prediction in the target column; the
\* window keeps exactly time_step rows, and exactly prediction_days predictions
\* are emitted, the k-th made from the window after k - 1 steps.
C1_RolloutStep ==
  /\ (pc = "rollout" \/ Len(rollout_log) > 0) =>
       /\ Len(predicted_scaled_prices) = Len(rollout_log)
       /\ Len(rollout_log) <= prediction_days
       /\ WindowAfter(0) = [j \in 1..time_step |->
                              scaled_data[Len(scaled_data) - time_step + j]]
       /\ \A k \in 0..Len(rollout_log) : Len(WindowAfter(k)) = time_step
       /\ \A k \in 1..Len(rollout_log) :
            LET W == WindowAfter(k - 1)
                V == WindowAfter(k)
            IN  /\ predicted_scaled_prices[k] = PredictOne(model, W)
                /\ rollout_log[k].pred = predicted_scaled_prices[k]
                /\ \A j \in 1..(time_step - 1) : V[j] = W[j + 1]
                /\ V[time_step][1] = predicted_scaled_prices[k]
                /\ \A c \in 2..NumColumns : V[time_step][c] = W[time_step][c]
  /\ AfterRollout => Len(predicted_scaled_prices) = prediction_days

\* C1 witness: the rollout has ended after steps that changed the target column
\* and carried a non-zero auxiliary value forward
C1_Witness ==
  /\ pc = "blend"
  /\ Len(predicted_scaled_prices) = prediction_days
  /\ \E k \in 1..prediction_days :
        /\ rollout_log[k].window[time_step][1] # predicted_scaled_prices[k]
        /\ rollout_log[k].window[time_step][2] # Zero
  /\ \E k \in 1..prediction_days : predicted_scaled_prices[k] # predicted_scaled_prices[1]

\* the windowing loop has run
Windowed == pc \in {"train", "rollout", "blend", "blend_call", "blend_apply", "noise",
                    "raised"}
              \/ (pc = "done" /\ scaled_data # <<>>)

\* C2: the windowing loop yields exactly len(matrix) - T (window, label) pairs
\* when len(matrix) > T and none when len(matrix) <= T.
C2_WindowCount ==
  Windowed =>
    /\ Len(train_set.X) = IF Len(scaled_data) > time_step
                          THEN Len(scaled_data) - time_step ELSE 0
    /\ Len(train_set.y) = Len(train_set.X)

\* C2 witness: a matrix two rows longer than T gave two windows
C2_Witness ==
  /\ pc = "train"
  /\ Len(scaled_data) = time_step + 2
  /\ Len(train_set.X) = 2

\* C3: the window built for row i (T <= i < len, 0-based) is rows [i - T, i) of
\* the scaled matrix, all columns, in row order, and its label is column 0 of row i.
C3_WindowContent ==
  Windowed =>
    \A k \in 1..Len(train_set.X) :
       /\ train_set.X[k] = [j \in 1..time_step |-> scaled_data[k - 1 + j]]
       /\ train_set.y[k] = scaled_data[time_step + k][1]

\* C3 witness: two windows that differ, with a label that is not the last
\* target value of its own window
C3_Witness ==
  /\ pc = "train"
  /\ Len(train_set.X) = 2
  /\ train_set.X[1] # train_set.X[2]
  /\ train_set.y[1] # train_set.X[1][time_step][1]
  /\ train_set.y[1] # train_set.y[2]

\* the continuity shift has been applied
Shifted == pc \in {"blend", "blend_call", "blend_apply", "noise"}
             \/ (pc \in {"done", "raised"} /\ adjusted_prices # <<>>)

\* C4: after inverse scaling and the continuity shift, before blend, noise and
\* floor, the first element of the path equals the last close of the training series.
C4_ContinuityShift ==
  Shifted => adjusted_prices[1] = last_actual_price

\* C4 witness: the inverse-scaled path did not start at the last close, and
\* the shifted path does
C4_Witness ==
  /\ pc = "blend"
  /\ predicted_prices[1] # last_actual_price
  /\ predicted_prices[prediction_days] # predicted_prices[1]
  /\ adjusted_prices[1] = last_actual_price

\* predict_future has returned a forecast
Returned == pc = "done" /\ adjusted_prices # <<>>

\* C5: every returned price is at least the floor 0.01, and it is the noisy
\* price clamped to the floor (the floor is applied last, after the noise).
C5_Floor ==
  Returned =>
    /\ Len(result.prices) = prediction_days
    /\ \A i \in 1..Len(result.prices) :
          LET noisy == FAdd(final_adjusted_prices[i], noise[i])
          IN  /\ FLe(Frac(1, 100), result.prices[i])
              /\ result.prices[i] = IF FLe(noisy, Frac(1, 100)) THEN Frac(1, 100) ELSE noisy

\* C5 witness: a returned forecast in which the noise drove a price below
\* zero and another price stayed above the floor
C5_Witness ==
  /\ Returned
  /\ \E i \in 1..prediction_days :
        /\ FLt(FAdd(final_adjusted_prices[i], noise[i]), Zero)
        /\ result.prices[i] = Frac(1, 100)
  /\ \E i \in 1..prediction_days : FLt(Frac(1, 100), result.prices[i])

\* forecast_future_sentiment has produced its return value
SentReturned == sent_pc \in {"return", "done"} \/ (sent_pc = "idle" /\ sent_path # "none")

\* every number of a map lies in [-1, 1]
InUnitRange(f) == \A d \in DOMAIN f : FLe(FromInt(-1), f[d]) /\ FLe(f[d], One)

\* the set of the dates of a sequence
DateSet(dates) == {dates[i] : i \in 1..Len(dates)}

\* C6 as stated: every returned sentiment lies within [-1, 1] whatever the
\* magnitude of the values in the SentimentMap, on every path.
C6_AlwaysInRange ==
  SentReturned => InUnitRange(sent_result)

\* C6 amended: every forecast date gets a value; on the regression path it
\* lies within [-1, 1] whatever the magnitude of the SentimentMap values; on
\* the flat paths (unclipped means) it lies within [-1, 1] whenever every
\* SentimentMap value does.
C6_InRangeWhenClippedOrInputInRange ==
  SentReturned =>
    /\ DOMAIN sent_result = DateSet(sent_dates)
    /\ (sent_path = "trend" \/ InUnitRange(sentiment_data)) => InUnitRange(sent_result)

\* C6 witness: a regression over a map holding a value outside [-1, 1] whose
\* extrapolation left [-1, 1] and was clipped
C6_Witness ==
  /\ sent_pc = "done"
  /\ sent_path = "trend"
  /\ ~InUnitRange(sentiment_data)
  /\ \E d \in DOMAIN sent_result :
        LET raw == FAdd(FMul(LinearFit(hist_dates_ord, hist_sentiments).coef_, FromInt(d)),
                        LinearFit(hist_dates_ord, hist_sentiments).intercept_)
        IN  FLt(raw, FromInt(-1)) /\ sent_result[d] = FromInt(-1)

\* the observations of the recent window: date >= today - 30 days
RecentObservations == {d \in DOMAIN sentiment_data : d >= today - 30}

\* C7: with fewer than 5 observations in the recent window the forecast is the
\* same value for every forecast date.
C7_FlatBelowFive ==
  (SentReturned /\ Cardinality(RecentObservations) < 5) =>
    /\ DOMAIN sent_result = DateSet(sent_dates)
    /\ \A d1 \in DOMAIN sent_result : \A d2 \in DOMAIN sent_result :
          sent_result[d1] = sent_result[d2]

\* C7 witness: four recent observations that are not all equal, and a flat
\* non-zero forecast
C7_Witness ==
  /\ sent_pc = "done"
  /\ Cardinality(RecentObservations) = 4
  /\ \E d1 \in RecentObservations : \E d2 \in RecentObservations :
        sentiment_data[d1] # sentiment_data[d2]
  /\ \A d \in DOMAIN sent_result : sent_result[d] # Zero

\* the mean of the map's values over a set of its dates
MeanOver(S) == Mean([i \in 1..Cardinality(S) |-> sentiment_data[SortedSeq(S)[i]]])

\* C8: the flat value is the mean of the recent observations if there is one,
\* else the mean of the whole SentimentMap if it is not empty, else 0; an empty
\* map gives 0 for each of the 10 forecast dates.
C8_FallbackPrecedence ==
  (SentReturned /\ Cardinality(RecentObservations) < 5) =>
    /\ Cardinality(DOMAIN sent_result) = 10
    /\ \A d \in DOMAIN sent_result :
          sent_result[d] = IF RecentObservations # {} THEN MeanOver(RecentObservations)
                           ELSE IF DOMAIN sentiment_data # {}
                                THEN MeanOver(DOMAIN sentiment_data)
                                ELSE Zero

\* C8 witness: recent and older observations with different means; the flat
\* value is the recent mean
C8_Witness ==
  /\ sent_pc = "done"
  /\ sent_path = "fallback"
  /\ RecentObservations # {}
  /\ RecentObservations # DOMAIN sentiment_data
  /\ MeanOver(RecentObservations) # MeanOver(DOMAIN sentiment_data)
  /\ \A d \in DOMAIN sent_result : sent_result[d] = MeanOver(RecentObservations)

\* C9: forecast_future_sentiment never raises; a failure in the fit or the
\* extrapolation gives, for every forecast date, the mean of the recent
\* observations that were used for the fit.
C9_FitFailureDegrades ==
  /\ sent_pc # "raised"
  /\ sent_path = "fit_error" =>
       /\ SentReturned
       /\ DOMAIN sent_result = DateSet(sent_dates)
       /\ \A d \in DOMAIN sent_result : sent_result[d] = MeanOver(RecentObservations)

\* C9 witness: the fit failed and the call returned the non-zero recent mean
C9_Witness ==
  /\ sent_pc = "done"
  /\ sent_path = "fit_error"
  /\ Cardinality(RecentObservations) >= 5
  /\ \A d \in DOMAIN sent_result :
        sent_result[d] = MeanOver(RecentObservations) /\ sent_result[d] # Zero

\* the blend step of predict_future has run on a sentiment forecast
Blended == sent_caller = "predict_future" /\ pc \in {"noise", "done", "raised"}
             /\ sent_pc = "idle"

\* C10: the blend multiplies the price of forecast date d by 1 + 0.005 * s_d,
\* s_d being the forecast sentiment of d, or 0 when there is none; no other
\* price depends on s_d.
C10_Blend ==
  Blended =>
    \A i \in 1..prediction_days :
       LET d == future_dates[i]
           s_d == IF d \in DOMAIN future_sentiment THEN future_sentiment[d] ELSE Zero
       IN  final_adjusted_prices[i] =
             FMul(adjusted_prices[i], FAdd(One, FMul(Frac(5, 1000), s_d)))

\* C10 witness: a blend with sentiments that differ between dates and prices
\* that moved
C10_Witness ==
  /\ Blended
  /\ pc = "noise"
  /\ \E i \in 1..prediction_days : \E j \in 1..prediction_days :
        future_sentiment[future_dates[i]] # future_sentiment[future_dates[j]]
  /\ \E i \in 1..prediction_days : final_adjusted_prices[i] # adjusted_prices[i]


(***************************************************************************)
(* The application around the forecast                                     *)
(***************************************************************************)
\* the main thread is inside predict_future
InPredictFuture == app_pc = "plot"

\* sentiment support is absent, or no sentiment data was obtained
SentimentAbsent == ~PERFORM_SENTIMENT \/ DOMAIN sentiment_data = {}

\* the forecaster has not been entered in this call and the prices that reach
\* the noise step are the shifted ones
BlendSkipped ==
  /\ sent_pc = "idle" /\ sent_path = "none" /\ future_sentiment = None
  /\ pc \notin {"blend_call", "blend_apply"}
  /\ (pc = "noise" \/ (pc = "done" /\ result.prices # <<>>)) =>
       final_adjusted_prices = adjusted_prices

\* C11 as stated: whenever sentiment support is absent or no sentiment data was
\* obtained, no fetch thread has been started, forecast_future_sentiment is
\* not called and the prices entering the noise step are the shifted prices.
C11_NoThreadNoBlend ==
  (InPredictFuture /\ SentimentAbsent) => (thread_runs = 0 /\ BlendSkipped)

\* C11 (amended): without sentiment support no fetch thread is ever started;
\* and whenever sentiment support is absent or the fetch obtained no data,
\* forecast_future_sentiment is not called and the prices entering the noise
\* step equal the continuity-shifted prices.
C11_NoBlendWithoutData ==
  /\ ~PERFORM_SENTIMENT => (thread_runs = 0 /\ thread_pc = 0)
  /\ (InPredictFuture /\ SentimentAbsent) => BlendSkipped

C11_Witness ==
  /\ InPredictFuture /\ pc = "noise"
  /\ PERFORM_SENTIMENT /\ DOMAIN sentiment_data = {} /\ thread_runs > 0
  /\ final_adjusted_prices = adjusted_prices /\ Len(adjusted_prices) = prediction_days


\* C12: the dates predict_future returns for a non-empty training series are
\* the prediction_days earliest weekdays (Monday to Friday) strictly later than
\* the series' last date, in strictly increasing order; and on the success
\* path there are as many prices as dates.
C12_BusinessDates ==
  (pc = "done" /\ training_data # <<>>) =>
    LET D == result.dates
    IN  /\ Len(D) = prediction_days
        /\ \A i \in 1..Len(D) : Weekday(D[i]) \in 0..4 /\ D[i] > last_date
        /\ \A i \in 1..(Len(D) - 1) : D[i] < D[i + 1]
        /\ \A d \in (last_date + 1)..D[Len(D)] :
             Weekday(d) \in 0..4 => \E i \in 1..Len(D) : D[i] = d
        /\ result.prices # <<>> => Len(result.prices) = Len(D)

C12_Witness ==
  /\ pc = "done" /\ result.prices # <<>>
  /\ Weekday(last_date) = 4
  /\ result.dates[1] = last_date + 3


(***************************************************************************)
(* compute_indicators                                                      *)
(***************************************************************************)
\* the input table is empty, or lacks one of close, high, low, volume once the
\* names are lower-cased
BadTable ==
  \/ ind_rows = 0 \/ ind_columns = <<>>
  \/ \E need \in {"close", "high", "low", "volume"} :
       \A i \in DOMAIN ind_columns : LowerName(ind_columns[i]) # need

\* C13: on an empty table, or one that lacks close, high, low or volume after
\* lower-casing and de-duplication of the column names, compute_indicators
\* does not raise and returns a result with zero rows.
C13_EmptyOnBadInput ==
  /\ ind_pc # "raised"
  /\ (ind_pc = "done" /\ BadTable) => (ind_result # None /\ ind_result.rows = 0)
  /\ (ind_pc = "calculate") => ~BadTable

C13_Witness ==
  /\ ind_pc = "done" /\ ind_rows > 0
  /\ Len(ind_columns) = 4 /\ Len(ind_data) = 3
  /\ ind_result.rows = 0


(***************************************************************************)
(* predict_future: input-data errors                                       *)
(***************************************************************************)
\* compute_indicators has returned and its frame is empty or has no more than
\* time_step rows
InputDataError == pc \notin {"idle", "start"} /\ Len(features_df) <= time_step

\* C14: when the feature frame is empty or has at most time_step rows,
\* predict_future neither raises nor reaches model training; it returns the
\* prediction_days future dates with an empty price sequence.
C14_EmptyResultOnInputError ==
  InputDataError =>
    /\ pc \in {"scale", "window", "done"}
    /\ features_df = <<>> => pc = "done"
    /\ model = None /\ rollout_log = <<>> /\ predicted_scaled_prices = <<>>
    /\ pc = "done" =>
         /\ result.prices = <<>>
         /\ Len(result.dates) = prediction_days
         /\ \A i \in 1..Len(result.dates) :
              /\ IsBusinessDay(result.dates[i])
              /\ result.dates[i] > (IF training_data # <<>> THEN last_date ELSE today)

C14_Witness ==
  /\ pc = "done" /\ Len(features_df) = time_step /\ train_set # None
  /\ result.prices = <<>> /\ Len(result.dates) = prediction_days


(***************************************************************************)
(* The application: failures, the fetch thread, successive runs            *)
(***************************************************************************)
\* C15 as stated: a run whose training series is too short for a forecast
\* (predict_future returned no prices) does not end with a displayed plot.
C15_NoPlotOnInputError == plot_window = "shown" => plotted # None

\* C16 as stated: when model training raises inside predict_future, the step
\* that leaves display_plot draws no forecast and shows the failure to the
\* user, whoever called display_plot.
C16_FitFailureSurfaces ==
  [][(app_pc = "plot" /\ pc = "raised" /\ model = None)
       => (plotted' = None /\ message' = "analysis_error")]_vars

\* C17: while the main thread is inside predict_future, the fetch thread of the
\* run is not running (it has left its last statement) and self.sentiment_data
\* is exactly what the fetch of this run obtained.
C17_CompletedSentiment ==
  InPredictFuture =>
    /\ thread_pc = 0
    /\ run_fetch.state # "pending"
    /\ sentiment_data = run_fetch.value

C17_Witness ==
  /\ InPredictFuture /\ plot_origin = "callback" /\ pc = "blend_apply"
  /\ thread_pc = 0 /\ run_fetch.state = "returned"
  /\ Cardinality(DOMAIN sentiment_data) = 5

\* C18: a call of predict_future starts without a scaler or a model, the
\* scaler it uses is the one fitted on the feature frame of this call, and
\* the sentiment data it sees is what the fetch of this run obtained: empty
\* when that fetch failed or found nothing, whatever the run before obtained.
C18_NothingReused ==
  /\ pc = "start" => (scaler = None /\ close_scaler = None /\ model = None
                      /\ future_sentiment = None)
  /\ pc \in {"window", "train", "rollout", "blend", "noise"} =>
       scaler = ScalerFit(ComputeIndicators(training_data))
  /\ InPredictFuture =>
       /\ sentiment_data = run_fetch.value
       /\ run_fetch.state \in {"none", "failed"} => sentiment_data = <<>>

C18_Witness ==
  /\ InPredictFuture /\ run_no = 2 /\ pc = "noise"
  /\ run_fetch.prev # <<>> /\ run_fetch.state = "failed"
  /\ sentiment_data = <<>> /\ future_sentiment = None


(***************************************************************************)
(* Scaling                                                                 *)
(***************************************************************************)
\* the scaler has just been fitted, or the path has just been inverse-scaled
Scaled == pc \in {"window", "blend"} /\ scaler # None

\* C19: the close column is scaled as (value - min) * scale with min the least
\* close of the feature frame and scale the scaler's factor for column 1, into
\* [0, 1]; the pair used for the inverse is the one the fitted scaler holds
\* for column 1; inverse-scaling the scaled close of any row of the frame
\* gives back that row's close; and the predicted path is inverse-scaled with
\* that same pair.
C19_InverseRoundTrip ==
  Scaled =>
    LET closes == Column(features_df, 1)
        back == InverseTransform(Column(scaled_data, 1), close_scaler.min_,
                                 close_scaler.scale_)
    IN  /\ scaler = ScalerFit(features_df)
        /\ close_scaler = [min_ |-> scaler.min_[1], scale_ |-> scaler.scale_[1]]
        /\ \A i \in 1..Len(features_df) :
             /\ scaled_data[i][1] =
                  FMul(FSub(closes[i], SeqMin(closes)), close_scaler.scale_)
             /\ FLe(Zero, scaled_data[i][1]) /\ FLe(scaled_data[i][1], One)
             /\ back[i] = closes[i]
        /\ predicted_prices # <<>> =>
             \A k \in 1..Len(predicted_prices) :
               FAdd(FMul(predicted_prices[k], close_scaler.scale_), close_scaler.min_)
                 = predicted_scaled_prices[k]

C19_Witness ==
  /\ pc = "blend" /\ predicted_prices # <<>>
  /\ close_scaler.scale_ = Frac(1, 2) /\ close_scaler.min_ = Frac(-1, 2)
  /\ scaled_data[Len(scaled_data)][1] = One


(***************************************************************************)
(* compute_rsi                                                             *)
(***************************************************************************)
\* C20 as stated: every row of the returned series is in [0, 100], and a row
\* is 100 exactly when the smoothed average loss at that row is 0.
C20_RsiRange ==
  rsi_pc = "done" =>
    \A i \in 1..Len(rsi_series) :
      /\ FLe(Zero, rsi_out.rsi[i]) /\ FLe(rsi_out.rsi[i], FromInt(100))
      /\ rsi_out.rsi[i] = FromInt(100) <=> rsi_out.avg_loss[i] = Zero


(***************************************************************************)
(* On-balance volume                                                       *)
(***************************************************************************)
\* the raw sum and the scaled column are there
ObvScaled == calc_pc \in {"atr", "bands", "select", "done"}

\* C21: the raw OBV starts at 0 and at every later row is the value of the
\* row before plus the row's volume on a strictly higher close, minus it on a
\* strictly lower close, and the same on an equal close; the scaled column
\* lies in [0, 1] and keeps the order of the raw values
C21_ObvRunningSum ==
  ObvScaled =>
    LET raw == calc_data.obv
        obv == calc_data.OBV
    IN  /\ Len(raw) = Len(calc_df) /\ Len(obv) = Len(calc_df)
        /\ raw[1] = 0
        /\ \A i \in 2..Len(calc_df) :
             raw[i] - raw[i - 1] =
               (CASE calc_df[i].close > calc_df[i - 1].close -> calc_df[i].volume
                  [] calc_df[i].close < calc_df[i - 1].close -> 0 - calc_df[i].volume
                  [] OTHER -> 0)
        /\ \A i \in DOMAIN obv : FLe(Zero, obv[i]) /\ FLe(obv[i], One)
        /\ \A i, j \in DOMAIN obv :
             /\ (raw[i] < raw[j] => FLt(obv[i], obv[j]))
             /\ (raw[i] = raw[j] => obv[i] = obv[j])

\* a series that rises, falls and stays, with volumes that differ
C21_Witness ==
  /\ ObvScaled
  /\ \E i, j, k \in 2..Len(calc_df) :
       /\ calc_df[i].close > calc_df[i - 1].close
       /\ calc_df[j].close < calc_df[j - 1].close
       /\ calc_df[k].close = calc_df[k - 1].close
       /\ calc_df[i].volume # calc_df[j].volume
  /\ \E i \in DOMAIN calc_data.obv : calc_data.obv[i] < 0


\* every close of the table is higher (dir = 1) or lower (dir = -1) than the
\* close before it, and the volume is the same on every row
Trending(df, dir) ==
  /\ \A i \in 2..Len(df) : dir * (df[i].close - df[i - 1].close) > 0
  /\ \A i \in 1..Len(df) : df[i].volume = df[1].volume

\* C22: with constant volume the OBV column never falls along a series whose
\* closes all rise, and never rises along a series whose closes all fall
C22_ObvMonotonic ==
  ObvScaled =>
    /\ Trending(calc_df, 1) =>
         \A i \in 2..Len(calc_df) : FLe(calc_data.OBV[i - 1], calc_data.OBV[i])
    /\ Trending(calc_df, -1) =>
         \A i \in 2..Len(calc_df) : FLe(calc_data.OBV[i], calc_data.OBV[i - 1])

\* three rising closes with one volume, and an OBV that climbs from 0 to 1
C22_Witness ==
  /\ ObvScaled
  /\ Len(calc_df) >= 3
  /\ Trending(calc_df, 1)
  /\ calc_data.OBV[1] = Zero /\ calc_data.OBV[Len(calc_df)] = One


(***************************************************************************)
(* The feature matrix                                                      *)
(***************************************************************************)
\* a float that is neither undefined nor infinite
IsFinite(v) == v # NaNF /\ v # InfF

\* the nine feature columns of the working copy, in the order of feature_cols
ColumnsOf(df, data) ==
  <<FloatColumn(df, "close"), data.EMA20, data.MACD, data.RSI_MA, data.RSI_Slope,
    data.OBV, data.ATR, data.StdDev, data.BBWidth>>

\* C23: the returned frame holds exactly the input rows whose nine features
\* are all defined, in their order; no row of a warm-up window is among
\* them, every entry of every returned row is finite, and the frame is empty
\* when no row is left
C23_FiniteFeatureRows ==
  calc_pc = "done" =>
    LET cols == ColumnsOf(calc_df, calc_data)
        defined == {i \in 1..Len(calc_df) : \A k \in 1..9 : cols[k][i] # NaNF}
    IN  /\ calc_result.columns = feature_cols
        /\ calc_result.index = SortedSeq(defined)
        /\ Len(calc_result.rows) = Cardinality(defined)
        /\ \A i \in 1..Len(calc_df) :
             (i < vol_window \/ i <= rsi_ma_length) => i \notin defined
        /\ \A r \in 1..Len(calc_result.rows) :
             /\ Len(calc_result.rows[r]) = 9
             /\ \A k \in 1..9 :
                  /\ calc_result.rows[r][k] = cols[k][calc_result.index[r]]
                  /\ IsFinite(calc_result.rows[r][k])
        /\ (defined = {} => calc_result.rows = <<>>)

\* a returned row at which EMA20 is 0 and BBWidth was back-filled, in a
\* series whose first closes never fall (the average loss is 0 there)
C23_Witness ==
  /\ calc_pc = "done"
  /\ \E r \in 1..Len(calc_result.index) :
       /\ calc_data.EMA20[calc_result.index[r]] = Zero
       /\ IsFinite(calc_result.rows[r][9])
  /\ calc_df[2].close >= calc_df[1].close
  /\ Len(calc_result.rows) < Len(calc_df)


(***************************************************************************)
(* The true range                                                          *)
(***************************************************************************)
TrueRangeDone == calc_pc \in {"bands", "select", "done"}

Max3(a, b, c) == IF a >= b /\ a >= c THEN a ELSE IF b >= c THEN b ELSE c

\* the largest of |high - low|, |high - prev_close| and |low - prev_close| at
\* row i, and |high - low| alone at the first row
AbsTrueRange(df, i) ==
  IF i = 1 THEN Abs(df[i].high - df[i].low)
  ELSE Max3(Abs(df[i].high - df[i].low),
            Abs(df[i].high - df[i - 1].close),
            Abs(df[i].low - df[i - 1].close))

\* C25 as stated: at every row, whatever the values of high, low and close,
\* the true range is the largest of the three absolute differences, and
\* |high - low| at the first row
C25_TrueRangeAnyValues ==
  TrueRangeDone =>
    \A i \in 1..Len(calc_df) : calc_data.tr[i] = FromInt(AbsTrueRange(calc_df, i))

\* C25: at every row whose high is not below its low the true range is the
\* largest of |high - low|, |high - prev_close| and |low - prev_close|, and at
\* the first row, where prev_close is undefined, it is |high - low| alone
C25_TrueRange ==
  TrueRangeDone =>
    \A i \in 1..Len(calc_df) :
      calc_df[i].high >= calc_df[i].low =>
        calc_data.tr[i] = FromInt(AbsTrueRange(calc_df, i))

\* a table without a malformed row in which each of the three differences is
\* the single largest at some row
C25_Witness ==
  /\ TrueRangeDone
  /\ \A i \in 1..Len(calc_df) : calc_df[i].high >= calc_df[i].low
  /\ calc_df[1].high > calc_df[1].low
  /\ \E i, j, k \in 2..Len(calc_df) :
       LET hl(r) == Abs(calc_df[r].high - calc_df[r].low)
           hpc(r) == Abs(calc_df[r].high - calc_df[r - 1].close)
           lpc(r) == Abs(calc_df[r].low - calc_df[r - 1].close)
       IN  /\ hl(i) > hpc(i) /\ hl(i) > lpc(i)
           /\ hpc(j) > hl(j) /\ hpc(j) > lpc(j)
           /\ lpc(k) > hl(k) /\ lpc(k) > hpc(k)


(***************************************************************************)
(* get_stock_data                                                          *)
(***************************************************************************)
\* C24: get_stock_data raises nothing and returns either an empty table or a
\* table with all of open, high, low, close, volume whose rows are all dated
\* on or before the requested end date; a failed or empty download, a missing
\* core column and a processing error give the empty table
C24_EmptyOrComplete ==
  stock_pc = "returned" =>
    /\ ~stock_result.raised
    /\ LET data == stock_result.data
           empty == IsEmptyTable(data.columns, Len(data.index))
       IN  /\ empty \/
                /\ stock_required_cols \subseteq Range(data.columns)
                /\ \A k \in DOMAIN data.index : data.index[k] <= stock_end
           /\ stock_download.kind # "table" => empty
           /\ (stock_download.kind = "table"
                 /\ Len(stock_download.table.columns) < 5) => empty

\* a download with all columns and a row after the end date, returned
\* without that row
C24_Witness ==
  /\ stock_pc = "returned"
  /\ stock_download.kind = "table"
  /\ \E k \in DOMAIN stock_download.table.index :
       stock_download.table.index[k] > stock_end
  /\ stock_result.data.index # <<>>
  /\ Len(stock_result.data.columns) = 5


(***************************************************************************)
(* The rollout as a whole                                                  *)
(***************************************************************************)
\* the last historical row with the j-th prediction in its target column
Synthesized(j) == [WindowAfter(0)[time_step] EXCEPT ![1] = predicted_scaled_prices[j]]

\* C26: after k rollout steps the window is the original last window without
\* its first k rows, followed by the synthesized rows in prediction order
\* (the last time_step of them once k exceeds time_step); every synthesized
\* row equals the last historical row in every non-target column
C26_AuxiliaryFrozen ==
  pc = "blend" =>
    \A k \in 0..Len(rollout_log) :
      LET rows == WindowAfter(0) \o [j \in 1..k |-> Synthesized(j)]
      IN  /\ WindowAfter(k) = SubSeq(rows, k + 1, k + time_step)
          /\ \A j \in 1..time_step : \A c \in 2..NumColumns :
               j > time_step - k =>
                 WindowAfter(k)[j][c] = scaled_data[Len(scaled_data)][c]

\* a finished rollout whose last historical row has a non-zero auxiliary
\* value and whose synthesized rows differ in the target column
C26_Witness ==
  /\ pc = "blend"
  /\ Len(rollout_log) = prediction_days
  /\ scaled_data[Len(scaled_data)][2] # Zero
  /\ WindowAfter(1)[1] = WindowAfter(0)[2]
  /\ \E j \in 1..time_step : Synthesized(j) # Synthesized(j + 1)


(***************************************************************************)
(* The input loop of run_analysis_steps                                    *)
(***************************************************************************)
\* symbols in normalized form: upper case, digits and letters joined by a dot
NormalizedSymbols == {"AAPL", "1155.KL", "0700.HK"}

\* the current pass of the input loop fetched a non-empty display series and
\* then a non-empty training series, both for the normalized symbol that
\* display_plot is given, and the training series is the one handed on
InputsComplete ==
  /\ symbol \in NormalizedSymbols
  /\ Len(fetch_log) = 2
  /\ fetch_log[1] = [symbol |-> symbol, purpose |-> "display", rows |-> fetch_log[1].rows]
  /\ fetch_log[1].rows > 0
  /\ fetch_log[2] = [symbol |-> symbol, purpose |-> "training",
                     rows |-> Len(training_data)]
  /\ Len(training_data) > 0

FetchOver == run_fetch.state \in {"returned", "failed"}

\* C28: every fetch thread schedules the plot callback once, and not before
\* its fetch has returned or raised; the loading window is closed when
\* display_plot starts and is never up together with a plot; once the fetch
\* is over, the loading window is closed in the end
C28_CallbackOncePerThread ==
  /\ [](/\ callbacks_scheduled <= thread_runs
        /\ thread_pc = 0 => callbacks_scheduled = thread_runs
        /\ thread_pc # 0 => callbacks_scheduled = thread_runs - 1)
  /\ [][callbacks_scheduled' # callbacks_scheduled =>
          FetchOver /\ callbacks_scheduled' = callbacks_scheduled + 1]_vars
  /\ [](loading_news_window = "up" =>
          app_pc # "plot" /\ plot_window = "none" /\ pc = "idle")
  /\ ((FetchOver /\ loading_news_window = "up") ~> loading_news_window = "none")

\* the callback of a fetch that raised has closed the loading window and
\* display_plot is running
C28_Witness ==
  /\ run_fetch.state = "failed"
  /\ thread_runs = 1 /\ callbacks_scheduled = 1
  /\ loading_news_window = "none"
  /\ app_pc = "plot" /\ plot_origin = "callback"


(***************************************************************************)
(* The warm-up of the feature matrix                                       *)
(***************************************************************************)
PositiveCloses == \A i \in 1..Len(calc_df) : calc_df[i].close > 0

\* C29: for a table of n rows without undefined entries and with positive
\* closes, compute_indicators drops exactly the first vol_window - 1 rows and
\* returns the other max(0, n - (vol_window - 1)) rows; predict_future
\* reaches model training exactly when n >= time_step + vol_window and
\* returns the empty result otherwise
C29_WarmupRows ==
  PositiveCloses =>
    LET n == Len(calc_df)
    IN  /\ calc_pc \in {"done", "train", "insufficient"} =>
             /\ calc_result.index = [r \in 1..(IF n >= vol_window THEN n - (vol_window - 1)
                                                ELSE 0) |-> r + (vol_window - 1)]
             /\ Len(calc_result.rows) = Len(calc_result.index)
             /\ \A i \in 1..n : calc_data.RSI[i] # NaNF
             /\ \A i \in 1..n : (n >= vol_window) => calc_data.BBWidth[i] # NaNF
        /\ calc_pc = "train" => n >= time_step + vol_window
        /\ calc_pc = "insufficient" => n < time_step + vol_window

\* a table just long enough reached model training, with one window
C29_Witness ==
  /\ PositiveCloses
  /\ calc_pc = "train"
  /\ Len(calc_df) = time_step + vol_window
  /\ Len(calc_result.rows) = time_step + 1
  /\ \E i \in 2..Len(calc_df) : calc_df[i].close # calc_df[1].close


(***************************************************************************)
(* The date dialog                                                         *)
(***************************************************************************)
\* the entry texts that denote a positive integer
PositiveTexts == {" 3 ", "1", "3", "14", "5000", "800000"}

\* a mapping holding both keys, with start < end and end = today
FullRange(dates) ==
  /\ ~dates.none
  /\ Keys(dates) = {"start", "end"}
  /\ Cardinality(dates.items) = 2
  /\ DateLt(GetItem(dates, "start"), GetItem(dates, "end"))
  /\ GetItem(dates, "end") = dlg_today

\* C30: select_date_range returns None or a mapping holding 'start' and
\* 'end' with start < end and end = today, so the caller never meets the
\* empty mapping; a Submit click that is rejected (no positive integer in the
\* entry, a date calculation that raises, a start not before the end) leaves
\* the dialog open, and only a click that stored the full range closes it
C30_DateRangeResult ==
  /\ [](dlg_pc \in {"returned", "restart", "fetch", "KeyError"} =>
          /\ dlg_result.none \/ FullRange(dlg_result)
          /\ dlg_result # PyDict({})
          /\ dlg_pc # "KeyError")
  /\ [][dlg_clicks'.n = dlg_clicks.n + 1 =>
          /\ dlg_clicks'.text \notin PositiveTexts => dlg_pc' = "open"
          /\ ~FullRange(self_dates') => dlg_pc' = "open"
          /\ dlg_pc' = "open" => self_dates' = PyDict({})
          /\ dlg_pc' # "open" => dlg_pc' = "destroyed" /\ FullRange(self_dates')]_vars

\* a rejected click left the empty mapping behind, the window was closed
\* after it and None came back
C30_Witness ==
  /\ dlg_pc = "restart"
  /\ dlg_clicks.n >= 1
  /\ dlg_result.none

====
